---- MODULE Spec2Model ----
(***************************************************************************)
(* Model of dylantarre/gen-persona: PersonaGenerator.generate_ux_persona   *)
(* (the attempt loop over the generative service) and its nested           *)
(* validate_json, from src/persona_generator.py.                           *)
(***************************************************************************)
EXTENDS Integers, Sequences, FiniteSets, TLC

VARIABLES
    \* ---- validate_json applied to one parsed value ----
    json_obj,       \* the parsed JSON value handed to validate_json
    validation,     \* what validate_json returned for json_obj (NotRun before)
    edits,          \* how many edits produced json_obj from the template document
    \* ---- one call of generate_ux_persona ----
    base_persona,   \* argument: the seed text
    max_retries,    \* argument: the attempt budget
    ux_pc,          \* "loop" | "returned" | "raised"
    attempt,        \* the for-loop variable (0-based); index of the attempt to run next
    messages,       \* the base message list built before the loop
    sent,           \* the "messages" payload of every requests.post made, in order
    log,            \* one logger line per attempt made, in order
    content,        \* the local 'content' (response text of the latest attempt)
    json_str,       \* the local 'json_str' (candidate extracted from content)
    result,         \* the returned string when ux_pc = "returned"
    error,          \* the raised exception when ux_pc = "raised"
    \* ---- one call of _restate_persona ----
    rs_seed,        \* argument base_persona: the seed text
    rs_pc,          \* "idle" | "loop" | "returned"
    rs_attempt,     \* the for-loop variable (0-based); index of the attempt to run next
    rs_messages,    \* the local list 'messages', shared by all attempts
    rs_sent,        \* the "messages" payload of every requests.post made, in order
    rs_result,      \* the returned sentence when rs_pc = "returned"
    rs_line,        \* the source line of the return statement taken (0 before)
    rs_outcomes,    \* what each attempt met, in order: "error" | "business" | "person"
    \* ---- a PersonaGenerator and its generate_name calls, one after the other ----
    name_cache,         \* self.name_cache
    first_name_cache,   \* self.first_name_cache
    gn_pc,              \* position in generate_name:  "idle" | "downsize" | "restate" |
                        \* "loop" | "redraw" | "returned"
    gn_calls,           \* how many calls have been started
    gn_base_persona,    \* argument base_persona of the call in progress
    restated_persona,   \* the local 'restated_persona'
    retry_count,        \* the local 'retry_count'
    name_posts,         \* name-generation requests.post calls made by this call
    name_sent,          \* the persona text in the template of each of these requests
    name_lines,         \* the lines of the response the latest attempt read, if it read one
    name_hits,          \* whether every attempt of this call so far was rejected
                        \* because the full name was cached
    random_first,       \* the local 'random_first' of the fallback
    random_last,        \* the local 'random_last' of the fallback
    attempts,           \* the local 'attempts' of the fallback's redraw loop
    gn_result,          \* the record returned by the latest call (blank before)
    returned,           \* for each record returned so far, in order: its name, the path
                        \* that returned it, and whether its first name was cached before
    downsized,          \* whether a cache was downsized since construction
    \* ---- the extraction step of lines 242-248 applied to a text, twice ----
    ex_text,        \* the response text
    ex_step,        \* how many times the step was applied (0, 1 or 2)
    ex_once,        \* the candidate taken from ex_text
    ex_twice,       \* the candidate taken from ex_once
    \* ---- the HTTP endpoints of src/app.py, one request after the other ----
    app_personas,   \* the module-level list 'personas' loaded at startup
    app_handled,    \* how many requests were answered
    app_request,    \* the latest request
    app_calls,      \* the generator methods the latest request's handler called: the
                    \* method, its positional argument and its keyword arguments
    app_response,   \* the answer to the latest request
    \* ---- two generate_name invocations on the one generator of app.py line 14, ----
    \* ---- each at its own statement of lines 410-457                          ----
    rc_pc,          \* invocation -> the statement it is about to execute
    rc_name,        \* invocation -> the name parsed from its latest response
    rc_retry,       \* invocation -> its local retry_count
    rc_result       \* invocation -> the name it returned and the path it returned on

vvars  == <<json_obj, validation, edits>>
uxvars == <<base_persona, max_retries, ux_pc, attempt, messages, sent, log,
            content, json_str, result, error>>
rsvars == <<rs_seed, rs_pc, rs_attempt, rs_messages, rs_sent, rs_result, rs_line,
            rs_outcomes>>
gnvars == <<name_cache, first_name_cache, gn_pc, gn_calls, gn_base_persona,
            restated_persona, retry_count, name_posts, name_sent, name_lines, name_hits, random_first,
            random_last, attempts, gn_result, returned, downsized>>
exvars == <<ex_text, ex_step, ex_once, ex_twice>>
appvars == <<app_personas, app_handled, app_request, app_calls, app_response>>
racevars == <<rc_pc, rc_name, rc_retry, rc_result>>
vars   == <<json_obj, validation, edits, base_persona, max_retries, ux_pc, attempt,
            messages, sent, log, content, json_str, result, error,
            rs_seed, rs_pc, rs_attempt, rs_messages, rs_sent, rs_result, rs_line,
            rs_outcomes, name_cache, first_name_cache, gn_pc, gn_calls, gn_base_persona,
            restated_persona, retry_count, name_posts, name_sent, name_lines, name_hits, random_first,
            random_last, attempts, gn_result, returned, downsized,
            ex_text, ex_step, ex_once, ex_twice,
            app_personas, app_handled, app_request, app_calls, app_response,
            rc_pc, rc_name, rc_retry, rc_result>>

----------------------------------------------------------------------------
(* Bounds of the model *)

\* max_retries is drawn from -1..MaxRetriesBound
MaxRetriesBound == 3
\* json_obj is the template document changed by at most MaxEdits edits
MaxEdits == 2

----------------------------------------------------------------------------
(* The declared schema: required_fields and nested_required_fields *)

required_fields ==
    << "name", "demographics", "goals", "frustrations", "behaviors", "motivations",
       "technological_proficiency", "preferred_channels", "day_in_life", "quote" >>

\* The keys of nested_required_fields in insertion order (dict iteration order).
nested_parents ==
    << "demographics", "occupation", "education", "location", "income", "goals",
       "frustrations", "behaviors", "motivations", "technological_proficiency",
       "preferred_channels" >>

nested_required_fields(parent) ==
    CASE parent = "demographics" ->
            << "age", "gender", "occupation", "education", "location", "income",
               "family_status" >>
      [] parent = "occupation" -> << "title", "responsibilities" >>
      [] parent = "education"  -> << "level", "field" >>
      [] parent = "location"   -> << "city_region", "living_situation" >>
      [] parent = "income"     -> << "level", "financial_situation" >>
      [] parent = "goals"      -> << "professional", "personal", "short_term", "long_term" >>
      [] parent = "frustrations" ->
            << "daily_workflow", "technology", "time_management", "communication",
               "industry_specific" >>
      [] parent = "behaviors" ->
            << "daily_routine", "technology_usage", "social_media", "shopping_habits",
               "decision_making", "information_seeking" >>
      [] parent = "motivations" ->
            << "values_beliefs", "professional_motivators", "personal_drivers",
               "success_vision" >>
      [] parent = "technological_proficiency" ->
            << "devices", "software_apps", "comfort_level", "learning_style" >>
      [] parent = "preferred_channels" ->
            << "communication", "media_consumption", "product_discovery",
               "social_networks" >>

Range(s) == { s[i] : i \in 1..Len(s) }

\* The parents the two-level special case names (line 203): income is not among them.
special_case_parents == { "occupation", "education", "location" }

\* The four sections the prompt's template nests under demographics.
DemoParents == { "occupation", "education", "location", "income" }

Parents == Range(nested_parents)

\* Top-level keys a value of the model may carry: the ten required ones and the four
\* parent names that the template only nests under demographics.
TopKeys == Range(required_fields) \cup DemoParents

----------------------------------------------------------------------------
(* JSON values, as far as validate_json can tell them apart.                *)
(*   t      the JSON type: "object", "array", "string", "number", "bool",   *)
(*          "null"                                                          *)
(*   top    object: the keys present; array / string: the field names for   *)
(*          which Python's  field in json_obj  is true (element / substring)*)
(*   kind   for a present top-level parent: "obj" when its value is a dict  *)
(*   kids   for a present top-level parent that is a dict: its keys         *)
(*   dkind  for p present in demographics: "obj" when demographics[p] is a  *)
(*          dict                                                            *)
(*   dkids  for such a dict: its keys                                       *)

JsonTypes == { "object", "array", "string", "number", "bool", "null" }

AllKids(parent)  == Range(nested_required_fields(parent))

\* The document of the prompt's template: every declared field, nothing else.
TemplateDocument ==
    [ t     |-> "object",
      top   |-> Range(required_fields),
      kind  |-> [ p \in Parents |-> "obj" ],
      kids  |-> [ p \in Parents |-> AllKids(p) ],
      dkind |-> [ p \in DemoParents |-> "obj" ],
      dkids |-> [ p \in DemoParents |-> AllKids(p) ] ]

\* A non-object value of type t for which  field in json_obj  holds for the names in top.
NonObject(t, top) == [ TemplateDocument EXCEPT !.t = t, !.top = top ]

----------------------------------------------------------------------------
(* validate_json (lines 186-212) *)

NotRun   == [ raised |-> FALSE, is_valid |-> FALSE, message |-> "not run", path |-> << >> ]
NoResult == [ raised |-> FALSE, is_valid |-> FALSE, message |-> "no result", path |-> << >> ]

\* return False, f"Missing required field: {path}"
MissingField(path) ==
    [ raised |-> FALSE, is_valid |-> FALSE, message |-> "Missing required field", path |-> path ]

\* return False, f"Field {path} should be an object"
NotAnObject(path) ==
    [ raised |-> FALSE, is_valid |-> FALSE, message |-> "should be an object", path |-> path ]

\* return True, "Validation successful"
ValidationSuccessful ==
    [ raised |-> FALSE, is_valid |-> TRUE, message |-> "Validation successful", path |-> << >> ]

\* 'in' or a subscript applied to a value that does not support it
TypeErrorRaised ==
    [ raised |-> TRUE, is_valid |-> FALSE, message |-> "TypeError", path |-> << >> ]

\* for child in children: if child not in <dict>: return False, "...{prefix}.{child}"
RECURSIVE CheckChildren(_, _, _, _)
CheckChildren(present, prefix, children, j) ==
    IF j > Len(children) THEN NoResult
    ELSE IF children[j] \notin present THEN MissingField(Append(prefix, children[j]))
    ELSE CheckChildren(present, prefix, children, j + 1)

\* Variant: every parent of nested_required_fields must be a top-level key.
CheckParentDirectRequired(d, parent) ==
    IF parent \in d.top /\ d.t = "object" /\ d.kind[parent] = "obj"
    THEN CheckChildren(d.kids[parent], << parent >>, nested_required_fields(parent), 1)
    ELSE MissingField(<< parent >>)

\* lines 194-200: the parent as a top-level key
CheckParentDirect(d, parent) ==
    IF parent \in d.top
    THEN IF d.t # "object" THEN TypeErrorRaised      \* json_obj[parent] on a str / list
         ELSE IF d.kind[parent] = "obj"
              THEN CheckChildren(d.kids[parent], << parent >>,
                                 nested_required_fields(parent), 1)
              ELSE NotAnObject(<< parent >>)
    ELSE NoResult

\* lines 202-210: the parent one level deeper, under demographics
CheckParentNested(d, parent) ==
    IF parent \in special_case_parents
    THEN IF "demographics" \in d.top /\ parent \in d.kids["demographics"]
         THEN IF d.dkind[parent] = "obj"
              THEN CheckChildren(d.dkids[parent], << "demographics", parent >>,
                                 nested_required_fields(parent), 1)
              ELSE NotAnObject(<< "demographics", parent >>)
         ELSE NoResult
    ELSE NoResult

\* Variant: the parents are walked last to first.
RECURSIVE NestedLoopReversed(_, _)
NestedLoopReversed(d, i) ==
    IF i > Len(nested_parents) THEN ValidationSuccessful
    ELSE LET parent == nested_parents[Len(nested_parents) + 1 - i]
             direct == CheckParentDirect(d, parent)
         IN  IF direct # NoResult THEN direct
             ELSE LET nested == CheckParentNested(d, parent)
                  IN  IF nested # NoResult THEN nested
                      ELSE NestedLoopReversed(d, i + 1)

\* lines 193-212: for parent, children in nested_required_fields.items()
RECURSIVE NestedLoop(_, _)
NestedLoop(d, i) ==
    IF i > Len(nested_parents) THEN ValidationSuccessful
    ELSE LET direct == CheckParentDirect(d, nested_parents[i])
         IN  IF direct # NoResult THEN direct
             ELSE LET nested == CheckParentNested(d, nested_parents[i])
                  IN  IF nested # NoResult THEN nested
                      ELSE NestedLoop(d, i + 1)

\* lines 188-190: for field in required_fields
RECURSIVE TopLoop(_, _)
TopLoop(d, i) ==
    IF i > Len(required_fields) THEN NestedLoop(d, 1)
    ELSE IF d.t \in { "number", "bool", "null" } THEN TypeErrorRaised  \* 'in' on a scalar
    ELSE IF required_fields[i] \notin d.top THEN MissingField(<< required_fields[i] >>)
    ELSE TopLoop(d, i + 1)

\* Variant: the nested checks run before the top-level ones.
validate_json_nested_first(d) ==
    IF d.t # "object" THEN TopLoop(d, 1)
    ELSE LET nested == NestedLoop(d, 1)
         IN  IF nested # ValidationSuccessful THEN nested ELSE TopLoop(d, 1)

validate_json(d) == TopLoop(d, 1)

----------------------------------------------------------------------------
(* Response texts.  A text is a sequence of tokens: the fence marker, the   *)
(* word json, white space, prose, and whole JSON texts.                     *)

\* the three-backquote fence marker
Fence   == "<fence>"
JsonTag == "json"
Space   == " "
Prose   == "Here is the persona you asked for"

\* The JSON texts of the model: raw as the service may write it, the value json.loads
\* gives for it, and indented as json.dumps(value, indent=2) writes that value.
JsonTable ==
    { [ raw |-> "{persona}", indented |-> "{\n  persona\n}",
        value |-> TemplateDocument ],
      [ raw |-> "{persona-without-quote}", indented |-> "{\n  persona-without-quote\n}",
        value |-> [ TemplateDocument EXCEPT !.top = @ \ { "quote" } ] ],
      [ raw |-> "\"persona\"", indented |-> "\"persona\"",
        value |-> NonObject("string", { }) ],
      [ raw |-> "42", indented |-> "42",
        value |-> NonObject("number", { }) ] }

RawTexts == { e.raw : e \in JsonTable }

\* s[i..] starts with sep
StartsWithAt(s, sep, i) ==
    /\ i + Len(sep) - 1 <= Len(s)
    /\ \A k \in 1..Len(sep) : s[i + k - 1] = sep[k]

\* Python's  sep in s
Contains(s, sep) == \E i \in 1..Len(s) : StartsWithAt(s, sep, i)

\* Python's  s.split(sep): the pieces of s between the occurrences of sep, found left
\* to right without overlap.
RECURSIVE SplitFrom(_, _, _, _)
SplitFrom(s, sep, i, piece) ==
    IF i > Len(s) THEN << piece >>
    ELSE IF StartsWithAt(s, sep, i)
         THEN << piece >> \o SplitFrom(s, sep, i + Len(sep), << >>)
         ELSE SplitFrom(s, sep, i + 1, Append(piece, s[i]))

split(s, sep) == SplitFrom(s, sep, 1, << >>)

\* Python's  s.strip()
RECURSIVE strip(_)
strip(s) ==
    IF s = << >> THEN s
    ELSE IF Head(s) = Space THEN strip(Tail(s))
    ELSE IF s[Len(s)] = Space THEN strip(SubSeq(s, 1, Len(s) - 1))
    ELSE s

\* Variant: the generic fence is looked for first.
ExtractGenericFirst(c) ==
    IF Contains(c, << Fence >>)
    THEN strip(split(split(c, << Fence >>)[2], << Fence >>)[1])
    ELSE c

\* Variant: the text after the first fence is taken whole.
ExtractToEnd(c) ==
    IF Contains(c, << Fence, JsonTag >>)
    THEN strip(split(c, << Fence, JsonTag >>)[2])
    ELSE IF Contains(c, << Fence >>)
         THEN strip(split(c, << Fence >>)[2])
         ELSE c

\* lines 242-248: the candidate taken out of the response text
ExtractJsonStr(c) ==
    IF Contains(c, << Fence, JsonTag >>)
    THEN strip(split(split(c, << Fence, JsonTag >>)[2], << Fence >>)[1])
    ELSE IF Contains(c, << Fence >>)
         THEN strip(split(split(c, << Fence >>)[2], << Fence >>)[1])
         ELSE c

\* json.loads: white space around the one JSON text is skipped; anything else is a
\* JSONDecodeError.
JSONDecodeError == [ ok |-> FALSE, value |-> NonObject("null", { }) ]

json_loads(s) ==
    LET body == strip(s)
    IN  IF Len(body) = 1 /\ \E e \in JsonTable : body[1] \in { e.raw, e.indented }
        THEN [ ok |-> TRUE,
               value |-> (CHOOSE e \in JsonTable : body[1] \in { e.raw, e.indented }).value ]
        ELSE JSONDecodeError

\* json.dumps(value, indent=2)
json_dumps(value) == << (CHOOSE e \in JsonTable : e.value = value).indented >>

\* The response texts the service is let to give: a body, with or without white space
\* around it, bare or inside a fenced block, with or without prose around that.
Bodies == { << t >> : t \in RawTexts } \cup { << >>, << Prose >> }

Padded(b) == { b, << Space >> \o b \o << Space >> }

Wrapped(b) ==
    { b,
      << Fence, JsonTag >> \o b \o << Fence >>,
      << Fence, JsonTag >> \o b,
      << Fence >> \o b \o << Fence >>,
      << Fence, Prose >> \o b \o << Fence >> }

Contents ==
    UNION { UNION { UNION { { pre \o w \o post : pre \in { << >>, << Prose >> },
                                                  post \in { << >>, << Prose >> } }
                            : w \in Wrapped(p) }
                    : p \in Padded(b) }
            : b \in Bodies }

----------------------------------------------------------------------------
(* validate_json on its own: json_obj is drawn by editing the template      *)
(* document, then validate_json is applied to it.                           *)

\* The two invocations the interleaving is studied with.
Invocations == { 1, 2 }

\* No invocation of generate_name runs beside another.
RaceIdle ==
    /\ rc_pc = [ t \in Invocations |-> "idle" ]
    /\ rc_name = [ t \in Invocations |-> << >> ]
    /\ rc_retry = [ t \in Invocations |-> 0 ]
    /\ rc_result = [ t \in Invocations |-> [ name |-> << >>, path |-> "none" ] ]

\* No request is sent to the application.
AppIdle ==
    /\ app_personas = << >> /\ app_handled = 0
    /\ app_request = [ endpoint |-> "none" ]
    /\ app_calls = << >>
    /\ app_response = [ status |-> 0 ]

\* The extraction step is not looked at on its own.
ExtractIdle ==
    ex_text = << >> /\ ex_step = 0 /\ ex_once = << >> /\ ex_twice = << >>

\* No call of _restate_persona is in progress.
RestateIdle ==
    /\ rs_seed = << >> /\ rs_pc = "idle" /\ rs_attempt = 0
    /\ rs_messages = << >> /\ rs_sent = << >>
    /\ rs_result = [ age |-> 0, role |-> "", words |-> << >> ] /\ rs_line = 0
    /\ rs_outcomes = << >>

\* A fresh PersonaGenerator on which generate_name is not called (lines 29-30).
NameIdle ==
    /\ name_cache = [ named |-> { }, filler |-> 0 ]
    /\ first_name_cache = [ named |-> { }, filler |-> 0 ]
    /\ gn_pc = "idle" /\ gn_calls = 0 /\ gn_base_persona = << >>
    /\ restated_persona = [ age |-> 0, role |-> "", words |-> << >> ]
    /\ retry_count = 0 /\ name_posts = 0 /\ name_sent = << >> /\ name_hits = TRUE
    /\ name_lines = [ read |-> FALSE, lines |-> << >> ]
    /\ random_first = "" /\ random_last = "" /\ attempts = 0
    /\ gn_result = [ name |-> << >>, title |-> << >>,
                     base_persona |-> [ age |-> 0, role |-> "", words |-> << >> ] ]
    /\ returned = << >> /\ downsized = FALSE

UxIdle ==
    /\ base_persona = "" /\ max_retries = 0 /\ ux_pc = "idle" /\ attempt = 0
    /\ messages = << >> /\ sent = << >> /\ log = << >>
    /\ content = << >> /\ json_str = << >> /\ result = << >> /\ error = "none"

ValidateInit ==
    /\ json_obj \in { TemplateDocument }
                    \cup { NonObject(t, Range(required_fields)) : t \in JsonTypes \ { "object" } }
    /\ validation = NotRun
    /\ edits = 0
    /\ UxIdle /\ RestateIdle /\ NameIdle /\ ExtractIdle /\ AppIdle /\ RaceIdle

CanEdit == validation = NotRun /\ edits < MaxEdits

\* a top-level key is left out (for an array / a string: the name does not occur in it)
RemoveTopKey ==
    /\ CanEdit /\ json_obj.t \in { "object", "array", "string" }
    /\ \E k \in json_obj.top :
          json_obj' = [ json_obj EXCEPT !.top = @ \ { k } ]
    /\ edits' = edits + 1
    /\ UNCHANGED << validation, uxvars, rsvars, gnvars, exvars, appvars, racevars >>

\* occupation / education / location / income also given as a top-level key
AddTopKey ==
    /\ CanEdit /\ json_obj.t = "object"
    /\ \E p \in DemoParents \ json_obj.top :
          json_obj' = [ json_obj EXCEPT !.top = @ \cup { p } ]
    /\ edits' = edits + 1
    /\ UNCHANGED << validation, uxvars, rsvars, gnvars, exvars, appvars, racevars >>

\* a top-level section holds a string, number or list instead of an object
SetNotObject ==
    /\ CanEdit /\ json_obj.t = "object"
    /\ \E p \in Parents \cap json_obj.top :
          /\ json_obj.kind[p] = "obj"
          /\ json_obj' = [ json_obj EXCEPT !.kind[p] = "other" ]
    /\ edits' = edits + 1
    /\ UNCHANGED << validation, uxvars, rsvars, gnvars, exvars, appvars, racevars >>

\* a key of a top-level section is left out
RemoveChild ==
    /\ CanEdit /\ json_obj.t = "object"
    /\ \E p \in Parents \cap json_obj.top :
          /\ json_obj.kind[p] = "obj"
          /\ \E c \in json_obj.kids[p] :
                json_obj' = [ json_obj EXCEPT !.kids[p] = @ \ { c } ]
    /\ edits' = edits + 1
    /\ UNCHANGED << validation, uxvars, rsvars, gnvars, exvars, appvars, racevars >>

DemographicsHas(d, p) ==
    /\ d.t = "object" /\ "demographics" \in d.top
    /\ d.kind["demographics"] = "obj" /\ p \in d.kids["demographics"]

\* demographics.<p> holds a string, number or list instead of an object
SetNestedNotObject ==
    /\ CanEdit
    /\ \E p \in DemoParents :
          /\ DemographicsHas(json_obj, p) /\ json_obj.dkind[p] = "obj"
          /\ json_obj' = [ json_obj EXCEPT !.dkind[p] = "other" ]
    /\ edits' = edits + 1
    /\ UNCHANGED << validation, uxvars, rsvars, gnvars, exvars, appvars, racevars >>

\* a key of demographics.<p> is left out
RemoveNestedChild ==
    /\ CanEdit
    /\ \E p \in DemoParents :
          /\ DemographicsHas(json_obj, p) /\ json_obj.dkind[p] = "obj"
          /\ \E c \in json_obj.dkids[p] :
                json_obj' = [ json_obj EXCEPT !.dkids[p] = @ \ { c } ]
    /\ edits' = edits + 1
    /\ UNCHANGED << validation, uxvars, rsvars, gnvars, exvars, appvars, racevars >>

\* is_valid, validation_message = validate_json(json_obj)
Validate ==
    /\ validation = NotRun
    /\ validation' = validate_json(json_obj)
    /\ UNCHANGED << json_obj, edits, uxvars, rsvars, gnvars, exvars, appvars, racevars >>

ValidateNext ==
    \/ RemoveTopKey \/ AddTopKey \/ SetNotObject \/ RemoveChild
    \/ SetNestedNotObject \/ RemoveNestedChild \/ Validate

ValidateSpec == ValidateInit /\ [][ValidateNext]_vars

----------------------------------------------------------------------------
(* generate_ux_persona (lines 61-286) *)

BasePersonas ==
    { "A 35-year-old marketing manager who struggles with work-life balance.",
      "A biotech startup focused on gene therapy research." }

\* The seed is only ever formatted into the user prompt and sliced for a log line.
SystemMessage     == [ role |-> "system", text |-> "expert UX researcher", persona |-> "",
                       this_attempt |-> 0, of_attempts |-> 0 ]
UserMessage(seed) == [ role |-> "user", text |-> "template", persona |-> seed,
                       this_attempt |-> 0, of_attempts |-> 0 ]

\* lines 222-225: "Your previous response was missing required fields. ... This is
\* attempt {attempt+1} of {max_retries}."
RetryMessage(att, mr) ==
    [ role |-> "user", text |-> "previous response was missing required fields",
      persona |-> "", this_attempt |-> att + 1, of_attempts |-> mr ]

\* lines 174-183
BaseMessages(seed) == << SystemMessage, UserMessage(seed) >>

\* lines 220-225: retry_messages = messages.copy(), plus the retry message on a retry
RetryMessages(msgs, att, mr) ==
    IF att > 0 THEN Append(msgs, RetryMessage(att, mr)) ELSE msgs

\* Variant: the retry message is appended to 'messages' itself (no copy).
MessagesAfterBuildNoCopy(msgs, att, mr) == RetryMessages(msgs, att, mr)

\* line 220: what building the request leaves in 'messages': the append goes to the copy
MessagesAfterBuild(msgs, att, mr) == msgs

\* What an attempt ends in: the function returns, raises, or the loop goes on.
Return(text)  == [ pc |-> "returned", result |-> text,  error |-> "none" ]
Raise(exc)    == [ pc |-> "raised",   result |-> << >>, error |-> exc ]
Continue      == [ pc |-> "loop",     result |-> << >>, error |-> "none" ]

\* The logger line that tells which branch an attempt took.
LogSuccess     == "JSON validation successful"          \* line 257
LogInvalid     == "JSON validation failed"              \* line 260
LogParseFailed == "Failed to parse JSON"                \* line 268
LogRequestErr  == "Error generating UX persona"         \* line 277
LogUnexpected  == "Unexpected error"                    \* line 282

\* The exceptions that leave the function.
FailedToGenerate == "Exception: Failed to generate UX persona"            \* line 280
Exhausted        == "Exception: Failed to generate valid UX persona after N attempts" \* line 286
UnexpectedErrors == { "KeyError", "IndexError", "TypeError", "ValueError" } \* line 283

\* Variant: a valid document is returned only when the budget is used up.
OnValidKeepsTrying(att, mr, obj) ==
    IF att = mr - 1 THEN Return(json_dumps(obj)) ELSE Continue

\* lines 256-258
OnValid(att, mr, obj) == Return(json_dumps(obj))

\* Variant: a schema-incomplete document is never returned, the loop just goes on.
OnInvalidAlwaysContinues(att, mr, obj) == Continue

\* lines 259-266
OnInvalid(att, mr, obj) ==
    IF att = mr - 1 THEN Return(json_dumps(obj)) ELSE Continue

\* Variant: the last attempt returns the extracted candidate, not the response text.
OnDecodeErrorReturnsCandidate(att, mr, c, js) ==
    IF att = mr - 1 THEN Return(js) ELSE Continue

\* Variant: unparseable text is never returned, the loop just goes on.
OnDecodeErrorAlwaysContinues(att, mr, c, js) == Continue

\* lines 267-274
OnDecodeError(att, mr, c, js) ==
    IF att = mr - 1 THEN Return(c) ELSE Continue

\* Variant: a failed request is retried while attempts remain.
OnRequestExceptionRetries(att, mr) ==
    IF att = mr - 1 THEN Raise(FailedToGenerate) ELSE Continue

\* lines 276-280
OnRequestException(att, mr) == Raise(FailedToGenerate)

\* Variant: an unexpected error is retried while attempts remain.
OnExceptionRetries(att, mr, exc) ==
    IF att = mr - 1 THEN Raise(exc) ELSE Continue

\* lines 281-283
OnException(att, mr, exc) == Raise(exc)

\* lines 242-255 for every response text of the model: the candidate, what json.loads
\* makes of it, and what validate_json says of the parsed value
Examined ==
    [ c \in Contents |->
        LET js     == ExtractJsonStr(c)
            parsed == json_loads(js)
        IN  [ json_str |-> js, parsed |-> parsed, v |-> validate_json(parsed.value) ] ]

\* lines 250-274 applied to a response text: the branch's logger line and its end
ProcessContent(att, mr, c) ==
    LET js     == Examined[c].json_str
        parsed == Examined[c].parsed
        v      == Examined[c].v
    IN  IF ~parsed.ok THEN [ line |-> LogParseFailed, end |-> OnDecodeError(att, mr, c, js) ]
        ELSE IF v.raised THEN [ line |-> LogUnexpected, end |-> OnException(att, mr, "TypeError") ]
        ELSE IF v.is_valid THEN [ line |-> LogSuccess, end |-> OnValid(att, mr, parsed.value) ]
        ELSE [ line |-> LogInvalid, end |-> OnInvalid(att, mr, parsed.value) ]

UxInit ==
    /\ base_persona \in BasePersonas
    /\ max_retries \in { -1 } \cup 0..MaxRetriesBound
    /\ ux_pc = "loop"
    /\ attempt = 0
    /\ messages = BaseMessages(base_persona)
    /\ sent = << >> /\ log = << >>
    /\ content = << >> /\ json_str = << >> /\ result = << >> /\ error = "none"
    /\ json_obj = TemplateDocument /\ validation = NotRun /\ edits = 0
    /\ RestateIdle /\ NameIdle /\ ExtractIdle /\ AppIdle /\ RaceIdle

\* Variant: the loop bound is off by one.
InLoopOffByOne == ux_pc = "loop" /\ attempt <= max_retries

\* the loop has an attempt left to run
InLoop == ux_pc = "loop" /\ attempt < max_retries

\* lines 220-234: the request is built and posted
Post ==
    /\ sent' = Append(sent, RetryMessages(messages, attempt, max_retries))
    /\ messages' = MessagesAfterBuild(messages, attempt, max_retries)

\* how an attempt ends: 'continue' moves the for loop on
End(line, end) ==
    /\ log' = Append(log, line)
    /\ ux_pc' = end.pc
    /\ result' = end.result
    /\ error' = end.error
    /\ attempt' = IF end.pc = "loop" THEN attempt + 1 ELSE attempt

\* requests.post raises, or raise_for_status() finds an HTTP error status
AttemptRequestFails ==
    /\ InLoop /\ Post
    /\ End(LogRequestErr, OnRequestException(attempt, max_retries))
    /\ UNCHANGED << content, json_str, base_persona, max_retries, vvars, rsvars, gnvars, exvars, appvars, racevars >>

\* response.json() cannot decode the body: a RequestException subclass in requests
\* 2.27 and later, a plain ValueError before
AttemptBodyNotJson ==
    /\ InLoop /\ Post
    /\ \/ End(LogRequestErr, OnRequestException(attempt, max_retries))
       \/ End(LogUnexpected, OnException(attempt, max_retries, "ValueError"))
    /\ UNCHANGED << content, json_str, base_persona, max_retries, vvars, rsvars, gnvars, exvars, appvars, racevars >>

\* line 239 on a body without choices[0].message.content (KeyError, IndexError,
\* TypeError), or line 243 on a content that is not a string (TypeError)
AttemptBodyMalformed ==
    /\ InLoop /\ Post
    /\ \E exc \in { "KeyError", "IndexError", "TypeError" } :
          End(LogUnexpected, OnException(attempt, max_retries, exc))
    /\ UNCHANGED << content, json_str, base_persona, max_retries, vvars, rsvars, gnvars, exvars, appvars, racevars >>

\* the service answers with a text
AttemptContent ==
    /\ InLoop /\ Post
    /\ \E c \in Contents :
          /\ content' = c
          /\ json_str' = Examined[c].json_str
          /\ LET p == ProcessContent(attempt, max_retries, c) IN End(p.line, p.end)
    /\ UNCHANGED << base_persona, max_retries, vvars, rsvars, gnvars, exvars, appvars, racevars >>

\* line 286: the for loop ran out
LoopExhausted ==
    /\ ux_pc = "loop" /\ ~(attempt < max_retries)
    /\ ux_pc' = "raised"
    /\ error' = Exhausted
    /\ UNCHANGED << base_persona, max_retries, attempt, messages, sent, log, content,
                    json_str, result, vvars, rsvars, gnvars, exvars, appvars, racevars >>

UxNext ==
    \/ AttemptRequestFails \/ AttemptBodyNotJson \/ AttemptBodyMalformed
    \/ AttemptContent \/ LoopExhausted

UxSpec == UxInit /\ [][UxNext]_vars

\* The interpreter runs the loop on: an enabled step is taken.
UxFairSpec == UxSpec /\ WF_vars(UxNext)

----------------------------------------------------------------------------
(* Properties of generate_ux_persona *)

Done == ux_pc \in { "returned", "raised" }

\* the logger line of the latest attempt
LastLine == log[Len(log)]

\* the latest attempt got a response text and took one of the branches of lines 250-274
\* that do not raise
LastAttemptReadContent ==
    Len(log) >= 1 /\ LastLine \in { LogSuccess, LogInvalid, LogParseFailed }

\* the candidate taken from text c parses as JSON
Parses(c) == json_loads(ExtractJsonStr(c)).ok

ParsedValue(c) == json_loads(ExtractJsonStr(c)).value

\* ... and the parsed value passes validate_json
PassesValidation(c) ==
    /\ Parses(c)
    /\ ~validate_json(ParsedValue(c)).raised
    /\ validate_json(ParsedValue(c)).is_valid

\* ... and the parsed value is turned down by validate_json
FailsValidation(c) ==
    /\ Parses(c)
    /\ ~validate_json(ParsedValue(c)).raised
    /\ ~validate_json(ParsedValue(c)).is_valid

\* text r is the indented serialization of the value parsed from text c
IsIndentedDocumentOf(r, c) ==
    \E e \in JsonTable : e.value = ParsedValue(c) /\ r = << e.indented >>

\* C1: an attempt whose candidate parses and passes validate_json ends the call at that
\* attempt: the function has returned the document re-serialized with indentation, and
\* one request was posted per attempt up to and including that one, none after it.
C1_ValidAttemptEndsLoop ==
    /\ PassesValidation(content) =>
          /\ ux_pc = "returned"
          /\ IsIndentedDocumentOf(result, content)
          /\ LastLine = LogSuccess
          /\ Len(sent) = Len(log) /\ attempt = Len(log) - 1
    /\ \A i \in 1..Len(log) : log[i] = LogSuccess => i = Len(log) /\ PassesValidation(content)

C1_Witness ==
    /\ ux_pc = "returned" /\ max_retries = 3 /\ Len(sent) = 2
    /\ log = << LogInvalid, LogSuccess >>
    /\ Contains(content, << Fence, JsonTag >>) /\ result # content

\* C2: whatever max_retries and the service's answers are, the call ends (returns or
\* raises), and at no time have more than max_retries requests been posted.
C2_TerminatesWithinBudget ==
    /\ [](Len(sent) <= IF max_retries > 0 THEN max_retries ELSE 0)
    /\ <>Done

C2_Witness ==
    /\ ux_pc = "returned" /\ max_retries = MaxRetriesBound /\ Len(sent) = max_retries
    /\ log[1] = LogParseFailed /\ LastLine = LogInvalid

\* C3: a failed request on any attempt ends the call at once with the wrapped exception:
\* it is the last attempt made, and nothing is returned.
C3_TransportFailureAborts ==
    \A i \in 1..Len(log) :
        log[i] = LogRequestErr =>
            /\ i = Len(log) /\ Len(sent) = i
            /\ ux_pc = "raised" /\ error = FailedToGenerate /\ result = << >>

C3_Witness ==
    /\ ux_pc = "raised" /\ max_retries = 3
    /\ log = << LogInvalid, LogRequestErr >>
    /\ FailsValidation(content)

\* C4: an attempt whose candidate does not parse returns the raw response text of that
\* attempt when it is the last one (attempt = max_retries - 1), and otherwise leaves the
\* call running with the next attempt up.
C4_ParseFailure ==
    /\ LastAttemptReadContent => (LastLine = LogParseFailed <=> ~Parses(content))
    /\ \A i \in 1..Len(log) :
          log[i] = LogParseFailed =>
              IF i = max_retries
              THEN i = Len(log) /\ ux_pc = "returned" /\ result = content
              ELSE i < Len(log) \/ (ux_pc = "loop" /\ attempt = i /\ result = << >>)

C4_Witness ==
    /\ ux_pc = "returned" /\ max_retries = 3
    /\ log = << LogParseFailed, LogInvalid, LogParseFailed >>
    /\ result = content /\ json_str # content

\* C5: an attempt whose candidate parses but fails validate_json returns that document
\* re-serialized with indentation when it is the last one, and otherwise leaves the call
\* running with the next attempt up.
C5_ValidationFailure ==
    /\ LastAttemptReadContent => (LastLine = LogInvalid <=> FailsValidation(content))
    /\ \A i \in 1..Len(log) :
          log[i] = LogInvalid =>
              IF i = max_retries
              THEN /\ i = Len(log) /\ ux_pc = "returned"
                   /\ IsIndentedDocumentOf(result, content)
              ELSE i < Len(log) \/ (ux_pc = "loop" /\ attempt = i /\ result = << >>)

C5_Witness ==
    /\ ux_pc = "returned" /\ max_retries = 3
    /\ log = << LogInvalid, LogParseFailed, LogInvalid >>
    /\ result = << "{\n  persona-without-quote\n}" >>

\* C6 as claimed: with max_retries >= 1 the call raises only for a failed request.
C6_RaisesOnlyOnTransportError ==
    (max_retries >= 1 /\ ux_pc = "raised") =>
        (error = FailedToGenerate /\ LastLine = LogRequestErr)

\* C6 as amended: with max_retries >= 1 the call raises either for a failed request (the
\* wrapped exception) or for an unexpected error met while reading or validating the
\* response, which is re-raised at once on whatever attempt it occurs; unparseable text
\* and missing fields never raise, and end in a returned string on the last attempt.
C6_RaisesOnTransportOrUnexpectedError ==
    max_retries >= 1 =>
        /\ ux_pc = "raised" =>
              \/ error = FailedToGenerate /\ LastLine = LogRequestErr
              \/ error \in UnexpectedErrors /\ LastLine = LogUnexpected
        /\ \A i \in 1..Len(log) :
              log[i] = LogUnexpected =>
                  i = Len(log) /\ ux_pc = "raised" /\ error \in UnexpectedErrors
        /\ (Len(log) >= 1 /\ LastLine \in { LogParseFailed, LogInvalid }) =>
              /\ ux_pc # "raised"
              /\ Len(log) = max_retries => ux_pc = "returned"
        /\ (Parses(content) /\ validate_json(ParsedValue(content)).raised) =>
              ux_pc = "raised" /\ error = "TypeError" /\ LastLine = LogUnexpected

C6_Witness ==
    /\ ux_pc = "raised" /\ max_retries = 3 /\ Len(log) = 2
    /\ LastLine = LogUnexpected /\ error = "TypeError"
    /\ json_str = << "42" >>

\* C7: the call ends in the exhaustion failure exactly when max_retries <= 0, and then
\* no request was posted; with max_retries >= 1 the raise after the loop is not reached.
C7_ExhaustionOnlyWithoutAttempts ==
    /\ Done => (error = Exhausted <=> max_retries <= 0)
    /\ error = Exhausted => ux_pc = "raised" /\ Len(sent) = 0 /\ Len(log) = 0
    /\ max_retries <= 0 => Len(sent) = 0
    /\ (max_retries >= 1 /\ ux_pc = "loop") => attempt < max_retries

C7_Witness ==
    ux_pc = "raised" /\ error = Exhausted /\ max_retries = 0 /\ Len(sent) = 0

\* how many retry messages the request msgs holds
RECURSIVE CountRetryMessages(_)
CountRetryMessages(msgs) ==
    IF msgs = << >> THEN 0
    ELSE (IF Head(msgs).this_attempt > 0 THEN 1 ELSE 0) + CountRetryMessages(Tail(msgs))

RECURSIVE TotalRetryMessages(_)
TotalRetryMessages(requests) ==
    IF requests = << >> THEN 0
    ELSE CountRetryMessages(Head(requests)) + TotalRetryMessages(Tail(requests))

\* C8: the request of attempt i (0-based) is the two base messages, followed by one retry
\* message stating attempt i+1 of max_retries exactly when i > 0; the base list is never
\* changed; after two failed attempts and a valid third one, two retry messages were
\* sent in all and the result is the third attempt's document.
C8_RequestOfEachAttempt ==
    /\ messages = << SystemMessage, UserMessage(base_persona) >>
    /\ \A n \in 1..Len(sent) :
          /\ Len(sent[n]) = IF n > 1 THEN 3 ELSE 2
          /\ sent[n][1] = SystemMessage
          /\ sent[n][2] = UserMessage(base_persona)
          /\ n > 1 => /\ sent[n][3].role = "user"
                      /\ sent[n][3].text = "previous response was missing required fields"
                      /\ sent[n][3].this_attempt = n
                      /\ sent[n][3].of_attempts = max_retries
    /\ (max_retries = 3 /\ Len(log) = 3 /\ log[1] = LogParseFailed
          /\ log[2] = LogParseFailed /\ PassesValidation(content)) =>
          /\ TotalRetryMessages(sent) = 2
          /\ ux_pc = "returned" /\ IsIndentedDocumentOf(result, content)

C8_Witness ==
    /\ max_retries = 3 /\ ux_pc = "returned"
    /\ log = << LogParseFailed, LogParseFailed, LogSuccess >>
    /\ TotalRetryMessages(sent) = 2

----------------------------------------------------------------------------
(* Properties of validate_json *)

Validated == validation # NotRun

MissingTopLevel(d) == { i \in 1..Len(required_fields) : required_fields[i] \notin d.top }

FirstMissingTopLevel(d) ==
    required_fields[CHOOSE i \in MissingTopLevel(d) : \A j \in MissingTopLevel(d) : i <= j]

\* C9: for a JSON object that lacks one or more of the ten top-level keys, validate_json
\* returns (False, "Missing required field: <key>") for the first missing key in declared
\* order, whatever the nested sections look like.
C9_FirstMissingTopLevelKey ==
    (Validated /\ json_obj.t = "object" /\ MissingTopLevel(json_obj) # { }) =>
        validation = MissingField(<< FirstMissingTopLevel(json_obj) >>)

C9_Witness ==
    /\ Validated /\ json_obj.t = "object"
    /\ "quote" \notin json_obj.top
    /\ "demographics" \in json_obj.top /\ json_obj.kind["demographics"] = "other"
    /\ validation.path = << "quote" >>

\* the seven object-valued sections of the ten top-level keys
Sections == Parents \ DemoParents

\* the shape C10 describes
DeclaredShape(d) ==
    /\ d.t = "object"
    /\ Range(required_fields) \subseteq d.top
    /\ \A p \in Sections : d.kind[p] = "obj" /\ AllKids(p) \subseteq d.kids[p]
    /\ \A p \in DemoParents : d.dkind[p] = "obj" /\ AllKids(p) \subseteq d.dkids[p]

\* C10 as claimed: every document of the declared shape is valid.
C10_DeclaredShapeIsValid ==
    (Validated /\ DeclaredShape(json_obj)) => validation = ValidationSuccessful

\* C10 as amended: every document of the declared shape, in which each of occupation,
\* education, location and income that also occurs as a top-level key is there an object
\* with its declared child keys, is valid.
C10_DeclaredShapeWithSoundExtrasIsValid ==
    ( /\ Validated /\ DeclaredShape(json_obj)
      /\ \A p \in DemoParents \cap json_obj.top :
            json_obj.kind[p] = "obj" /\ AllKids(p) \subseteq json_obj.kids[p] )
    => validation = ValidationSuccessful

C10_Witness ==
    /\ Validated /\ DeclaredShape(json_obj)
    /\ { "occupation", "income" } \subseteq json_obj.top
    /\ validation = ValidationSuccessful

\* demographics.<p> is present and is not an object, or lacks a declared child key
NestedShapeBroken(d, p) ==
    /\ DemographicsHas(d, p)
    /\ d.dkind[p] # "obj" \/ ~(AllKids(p) \subseteq d.dkids[p])

\* C11: for each of occupation, education, location and income, a document (with all
\* ten top-level keys) in which demographics.<parent> is present but is not an object or
\* lacks one of that parent's declared child keys is rejected by validate_json.
C11_NestedShapesAreChecked ==
    \A p \in DemoParents :
        ( /\ Validated /\ json_obj.t = "object"
          /\ MissingTopLevel(json_obj) = { }
          /\ NestedShapeBroken(json_obj, p) )
        => ~validation.is_valid

\* the declared children of parent p that the key set 'present' lacks, by position
MissingChildren(present, p) ==
    { j \in 1..Len(nested_required_fields(p)) : nested_required_fields(p)[j] \notin present }

FirstMissingChild(present, p) ==
    nested_required_fields(p)[CHOOSE j \in MissingChildren(present, p) :
                                 \A k \in MissingChildren(present, p) : j <= k]

\* what is wrong with the value found for a parent, reported under the path prefix
Finding(is_object, present, prefix, p) ==
    IF ~is_object THEN NotAnObject(prefix)
    ELSE IF MissingChildren(present, p) = { } THEN NoResult
    ELSE MissingField(Append(prefix, FirstMissingChild(present, p)))

\* The checks of the walk in the order they are made: for the n-th parent, check 2n-1
\* looks at the parent as a top-level key and check 2n at the parent under demographics.
WalkFindings(d) ==
    [ k \in 1..(2 * Len(nested_parents)) |->
        LET p == nested_parents[(k + 1) \div 2]
        IN  IF k % 2 = 1
            THEN IF p \in d.top
                 THEN Finding(d.kind[p] = "obj", d.kids[p], << p >>, p)
                 ELSE NoResult
            ELSE IF p \in special_case_parents /\ DemographicsHas(d, p)
                 THEN Finding(d.dkind[p] = "obj", d.dkids[p], << "demographics", p >>, p)
                 ELSE NoResult ]

WalkHits(d) == { k \in DOMAIN WalkFindings(d) : WalkFindings(d)[k] # NoResult }

\* C12: with all top-level keys present, validate_json reports the first violation met
\* when walking the parents in declared order: 'Field <parent> should be an object' for
\* a present parent that is no object, else '<parent>.<child>' for its first missing
\* child in declared child order; a violation under a later parent is never reported
\* when an earlier one exists.
C12_FirstViolationInDeclaredOrder ==
    (Validated /\ json_obj.t = "object" /\ MissingTopLevel(json_obj) = { }) =>
        IF WalkHits(json_obj) = { }
        THEN validation = ValidationSuccessful
        ELSE validation =
                WalkFindings(json_obj)[CHOOSE k \in WalkHits(json_obj) :
                                          \A j \in WalkHits(json_obj) : k <= j]

C12_Witness ==
    /\ Validated /\ json_obj.t = "object" /\ MissingTopLevel(json_obj) = { }
    /\ json_obj.kind["frustrations"] = "other"
    /\ MissingChildren(json_obj.kids["goals"], "goals") = { 2 }
    /\ validation = MissingField(<< "goals", "personal" >>)

----------------------------------------------------------------------------
(* PersonaGenerator._restate_persona (lines 543-615).  A text is a sequence *)
(* of word tokens; a sentence is a record of its words and, for the         *)
(* synthesized fallback, the age and role it starts with.                   *)

\* line 568: max_retries = 3
RestateMaxRetries == 3
\* line 607: age = random.randint(35, 55)
AgeMin == 35
AgeMax == 55
\* line 608
roles == { "founder", "CEO", "manager", "director", "owner", "entrepreneur" }
Dot == "."

\* the seeds handed to _restate_persona
RestateSeeds ==
    { << "A", "biotech", "Startup", "focused", "on", "gene", "therapy", Dot >>,
      << "A", "confirmed", "bachelor" >>,
      << "Retired", "teacher", Dot >> }

\* Python's  s.lower(), word by word
LowerTable ==
    [ w \in { "A", "Startup", "Retired", "This", "They", "The" } |->
        CASE w = "A" -> "a"  [] w = "Startup" -> "startup"  [] w = "Retired" -> "retired"
          [] w = "This" -> "this"  [] w = "They" -> "they"  [] w = "The" -> "the" ]

lower(s) == [ i \in DOMAIN s |-> IF s[i] \in DOMAIN LowerTable THEN LowerTable[s[i]] ELSE s[i] ]

\* Python's  s.strip('.')
RECURSIVE strip_dots(_)
strip_dots(s) ==
    IF s = << >> THEN s
    ELSE IF Head(s) = Dot THEN strip_dots(Tail(s))
    ELSE IF s[Len(s)] = Dot THEN strip_dots(SubSeq(s, 1, Len(s) - 1))
    ELSE s

\* lines 584-586, each indicator as its words
business_indicators ==
    { << "this", "is", "a", "business" >>, << "this", "business" >>, << "this", "company" >>,
      << "this", "organization" >>, << "we're", "talking", "about", "a", "business" >>,
      << "a", "business", "that" >>, << "the", "business" >>, << "they", "offer" >>,
      << "they", "provide" >>, << "they", "specialize" >> }

\* line 588
is_about_business(text) ==
    \E indicator \in business_indicators : Contains(lower(text), lower(indicator))

\* line 606: the terms looked for in the seed
business_terms == { "business", "company", "startup", "organization", "firm", "enterprise" }

\* the terms a lower-case word contains as a substring
TermsInWord(w) ==
    IF w \in business_terms THEN { w }
    ELSE IF w = "confirmed" THEN { "firm" }
    ELSE { }

\* line 606: any(business_term in base_persona.lower() for business_term in [...])
has_business_term(seed) ==
    \E i \in DOMAIN seed : TermsInWord(lower(seed)[i]) # { }

\* a sentence that is the given text
Plain(words) == [ age |-> 0, role |-> "", words |-> words ]

\* line 610: f"{age}-year-old {role} of a {base_persona.lower().strip('.')}"
FallbackSentence(seed, age, role) ==
    [ age |-> age, role |-> role, words |-> << "of", "a" >> \o strip_dots(lower(seed)) ]

\* what the service may answer to a restatement request (before .strip())
PersonNote   == << "38-year-old", "biotech", "entrepreneur", "leading", "a", "Startup" >>
BusinessNote == << Space, "This", "business", "offers", "gene", "therapy", Space >>
OfferNote    == << "They", "provide", "office", "space" >>
RestateContents == { PersonNote, BusinessNote, OfferNote }

\* lines 556-565 and 593-597
RestateSystemMessage    == [ role |-> "system", text |-> "ux-researcher-notes", persona |-> << >> ]
RestateUserMessage(seed) == [ role |-> "user", text |-> "restate-template", persona |-> seed ]
CorrectiveMessage       == [ role |-> "user", text |-> "still-describes-a-business",
                             persona |-> << >> ]
RestateMessages(seed)   == << RestateSystemMessage, RestateUserMessage(seed) >>

\* the state of one call before its first attempt
RestateStart(seed) ==
    [ seed |-> seed, pc |-> "loop", attempt |-> 0, messages |-> RestateMessages(seed),
      sent |-> << >>, result |-> Plain(<< >>), line |-> 0, outcomes |-> << >> ]

RestateReturn(st, sentence, line) ==
    [ st EXCEPT !.pc = "returned", !.result = sentence, !.line = line ]

\* Variant: the for loop never advances.
RestateContinueSameAttempt(st) == st

\* the for loop goes to its next attempt; line 615 once range(max_retries) is used up
RestateContinue(st) ==
    IF st.attempt + 1 < RestateMaxRetries
    THEN [ st EXCEPT !.attempt = @ + 1 ]
    ELSE RestateReturn([ st EXCEPT !.attempt = @ + 1 ], Plain(st.seed), 615)

\* lines 571-579: the request is posted with the shared message list; 'met' is what
\* the attempt then met
RestatePosted(st, met) ==
    [ st EXCEPT !.sent = Append(@, st.messages), !.outcomes = Append(@, met) ]

\* Variant: a flagged response is retried with the message list as it was.
OnRestateContentNoCorrective(st, c) ==
    LET stripped == strip(c)
    IN  IF is_about_business(stripped) /\ st.attempt < RestateMaxRetries - 1
        THEN RestateContinue(RestatePosted(st, "business"))
        ELSE RestateReturn(RestatePosted(st, IF is_about_business(stripped)
                                             THEN "business" ELSE "person"),
                           Plain(stripped), 601)

\* lines 580-601: the response text c was read
OnRestateContent(st, c) ==
    LET stripped == strip(c)
    IN  IF is_about_business(stripped) /\ st.attempt < RestateMaxRetries - 1
        THEN RestateContinue([ RestatePosted(st, "business") EXCEPT
                                 !.messages = Append(@, CorrectiveMessage) ])
        ELSE RestateReturn(RestatePosted(st, IF is_about_business(stripped)
                                             THEN "business" ELSE "person"),
                           Plain(stripped), 601)

\* Variant: the first error ends the call with the seed.
OnRestateExceptionGivesUp(st, age, role) ==
    RestateReturn(RestatePosted(st, "error"), Plain(st.seed), 612)

\* lines 602-612: anything inside the try raised; age and role are what random would draw
OnRestateException(st, age, role) ==
    IF st.attempt = RestateMaxRetries - 1
    THEN IF has_business_term(st.seed)
         THEN RestateReturn(RestatePosted(st, "error"),
                            FallbackSentence(st.seed, age, role), 610)
         ELSE RestateReturn(RestatePosted(st, "error"), Plain(st.seed), 612)
    ELSE RestateContinue(RestatePosted(st, "error"))

RestateState ==
    [ seed |-> rs_seed, pc |-> rs_pc, attempt |-> rs_attempt, messages |-> rs_messages,
      sent |-> rs_sent, result |-> rs_result, line |-> rs_line, outcomes |-> rs_outcomes ]

RestateBecomes(st) ==
    /\ rs_seed' = st.seed /\ rs_pc' = st.pc /\ rs_attempt' = st.attempt
    /\ rs_messages' = st.messages /\ rs_sent' = st.sent
    /\ rs_result' = st.result /\ rs_line' = st.line /\ rs_outcomes' = st.outcomes

RestateIs(st) ==
    /\ rs_seed = st.seed /\ rs_pc = st.pc /\ rs_attempt = st.attempt
    /\ rs_messages = st.messages /\ rs_sent = st.sent
    /\ rs_result = st.result /\ rs_line = st.line /\ rs_outcomes = st.outcomes

RestateInit ==
    /\ \E seed \in RestateSeeds : RestateIs(RestateStart(seed))
    /\ json_obj = TemplateDocument /\ validation = NotRun /\ edits = 0
    /\ UxIdle /\ NameIdle /\ ExtractIdle /\ AppIdle /\ RaceIdle

\* Variant: the final attempt is never run.
RestateInLoopStopsEarly == rs_pc = "loop" /\ rs_attempt < RestateMaxRetries - 1

\* the for loop has an attempt left to run
RestateInLoop == rs_pc = "loop" /\ rs_attempt < RestateMaxRetries

\* the post, raise_for_status, the decoding of the body or .strip() raises
RestateAttemptFails ==
    /\ RestateInLoop
    /\ \E age \in AgeMin..AgeMax, role \in roles :
          RestateBecomes(OnRestateException(RestateState, age, role))
    /\ UNCHANGED << vvars, uxvars, gnvars, exvars, appvars, racevars >>

\* the service answers with a text
RestateAttemptContent ==
    /\ RestateInLoop
    /\ \E c \in RestateContents : RestateBecomes(OnRestateContent(RestateState, c))
    /\ UNCHANGED << vvars, uxvars, gnvars, exvars, appvars, racevars >>

RestateNext == RestateAttemptFails \/ RestateAttemptContent

RestateSpec == RestateInit /\ [][RestateNext]_vars

\* every attempt that can run does run
RestateFairSpec == RestateSpec /\ WF_vars(RestateNext)

----------------------------------------------------------------------------
(* PersonaGenerator.generate_name (lines 288-541), called MaxCalls times    *)
(* one after the other on one generator.  A name is a sequence of words and *)
(* the white space between them.                                            *)

\* how many generate_name calls a behaviour makes
MaxCalls == 2
\* line 297: max_retries = 5
NameMaxRetries == 5
\* lines 291, 293: len(cache) > 100
CacheHighWater == 100
\* lines 292, 294: random.sample(list(cache), 50)
SampleSize == 50
\* line 509: attempts < 10
MaxRedraws == 10

Tab == "\t"
WhiteSpace == { Space, Tab }

\* the seeds handed to generate_name
NameSeeds == { << "Retired", "teacher", Dot >> }

\* line 301 as a whole: one run of _restate_persona over the attempts' outcomes
RestateOutcomes ==
    { [ failed |-> TRUE, text |-> << >> ] }
    \cup { [ failed |-> FALSE, text |-> c ] : c \in RestateContents }

RECURSIVE RestateRunFrom(_, _, _, _, _)
RestateRunFrom(st, outs, i, age, role) ==
    IF st.pc # "loop" \/ i > Len(outs) THEN st
    ELSE RestateRunFrom(IF outs[i].failed THEN OnRestateException(st, age, role)
                                          ELSE OnRestateContent(st, outs[i].text),
                        outs, i + 1, age, role)

\* every sentence _restate_persona can return for a seed
RestateResults ==
    [ seed \in NameSeeds |->
        { RestateRunFrom(RestateStart(seed), outs, 1, age, role).result :
            outs \in [ 1..RestateMaxRetries -> RestateOutcomes ],
            age \in AgeMin..AgeMax, role \in roles } ]

\* lines 463-500: the fallback lists
first_names == { "Sarah", "Ali" }
last_names  == { "Reed" }

\* the names the service may write after "Name:"
ServiceNames ==
    { << "Ali" >>, << "Sarah", Space, "Reed" >>, << "Sarah", Tab, "Reed" >>,
      << "Ali", Space, "Khan" >> }

\* The lines of a response: a line is its leading tag ("Name:", "Title:" or none) and
\* the rest of the line.
Line(tag, rest) == [ tag |-> tag, rest |-> rest ]
ServiceTitle == << "Digital", Space, "Nomad" >>
NameResponses ==
    { << Line("Name:", << Space >> \o n), Line("Title:", << Space >> \o ServiceTitle) >> :
        n \in ServiceNames }
    \cup { << Line("Title:", << Space >> \o ServiceTitle) >>,
           << Line("", << "Sure!" >>), Line("Name:", << Space, "Ali" >>),
              Line("Name:", << Space, "Ali", Space, "Khan" >>) >> }

\* line 421: the response text an attempt read, as its lines; none when the request
\* raised or no attempt was made yet
NoLines == [ read |-> FALSE, lines |-> << >> ]
ReadLines(lines) == [ read |-> TRUE, lines |-> lines ]

\* lines 424-431: the last "Name:" / "Title:" line wins; both start as ""
RECURSIVE ParseLines(_, _, _)
ParseLines(lines, name, title) ==
    IF lines = << >> THEN [ name |-> name, title |-> title ]
    ELSE IF Head(lines).tag = "Name:"
         THEN ParseLines(Tail(lines), strip(Head(lines).rest), title)
    ELSE IF Head(lines).tag = "Title:"
         THEN ParseLines(Tail(lines), name, strip(Head(lines).rest))
    ELSE ParseLines(Tail(lines), name, title)

\* Python's  name.split()[0]: the first run of tokens that are not white space
FirstPiece(name) ==
    LET breaks == { i \in DOMAIN name : name[i] \in WhiteSpace }
    IN  IF breaks = { } THEN name
        ELSE SubSeq(name, 1, (CHOOSE i \in breaks : \A j \in breaks : i <= j) - 1)

\* line 440: name.split()[0] if name and " " in name else name
first_name(name) ==
    IF name # << >> /\ Space \in Range(name) THEN FirstPiece(name) ELSE name

\* A cache set: the names of this model it holds, and how many other names.
Cache(named, filler) == [ named |-> named, filler |-> filler ]
In(x, cache)  == x \in cache.named
\* Variant: an insertion also leaves a stray entry behind.
AddWithStray(cache, x) == [ cache EXCEPT !.named = @ \cup { x }, !.filler = @ + 1 ]
Add(cache, x) == [ cache EXCEPT !.named = @ \cup { x } ]
Size(cache)   == Cardinality(cache.named) + cache.filler

\* the sets of 'size' entries random.sample can draw from the cache
Samples(cache, size) ==
    { Cache(S, size - Cardinality(S)) :
        S \in { T \in SUBSET cache.named :
                  Cardinality(T) <= size /\ size - Cardinality(T) <= cache.filler } }

\* Variant: no cache is ever cut.
NeverDownsized(cache) == { cache }

\* Variant: the sample is cut from a set that has reached the mark.
DownsizedAtMark(cache) ==
    IF Size(cache) >= CacheHighWater THEN Samples(cache, SampleSize) ELSE { cache }

\* lines 291-294: what the downsizing step may leave of a cache
Downsized(cache) ==
    IF Size(cache) > CacheHighWater THEN Samples(cache, SampleSize) ELSE { cache }

\* the words of a lower-cased seed that hold a title keyword as a substring
TitleTermsInWord(w) ==
    IF w \in { "teacher", "education", "engineer", "developer", "market", "business",
               "student" }
    THEN { w }
    ELSE IF w = "marketing" THEN { "market" }
    ELSE { }

SeedHas(seed, term) == \E i \in DOMAIN seed : term \in TitleTermsInWord(lower(seed)[i])

\* lines 525-535
FallbackTitle(seed) ==
    IF SeedHas(seed, "teacher") \/ SeedHas(seed, "education") THEN << "Educator" >>
    ELSE IF SeedHas(seed, "engineer") \/ SeedHas(seed, "developer")
         THEN << "Tech", Space, "Professional" >>
    ELSE IF SeedHas(seed, "market") THEN << "Marketing", Space, "Specialist" >>
    ELSE IF SeedHas(seed, "business") THEN << "Business", Space, "Owner" >>
    ELSE IF SeedHas(seed, "student") THEN << "Student" >>
    ELSE << "Professional" >>

\* Variant: the record carries no persona text.
NameRecordWithoutPersona(name, title, restated) ==
    [ name |-> name, title |-> title, base_persona |-> [ age |-> 0, role |-> "",
                                                        words |-> << >> ] ]

\* lines 450-454 and 537-541: the returned record
NameRecord(name, title, restated) ==
    [ name |-> name, title |-> title, base_persona |-> restated ]

NoRecord == NameRecord(<< >>, << >>, Plain(<< >>))

\* what is remembered of a returned record
Returned(name, path, first_was_cached) ==
    [ name |-> name, path |-> path, first_was_cached |-> first_was_cached ]

\* Variant: every parsed name is accepted.
AcceptsAnyName(name, names, firsts) == TRUE

\* lines 434-444: neither the name nor its first name is cached
\* Variant: an empty name is never accepted.
AcceptedUnlessEmpty(name, names, firsts) ==
    name # << >> /\ ~In(name, names) /\ ~In(first_name(name), firsts)

Accepted(name, names, firsts) == ~In(name, names) /\ ~In(first_name(name), firsts)

\* Variant: the first draw is kept.
KeepsFirstDraw(first, firsts, n) == FALSE

\* line 509: while random_first in self.first_name_cache and attempts < 10
KeepsDrawing(first, firsts, n) == In(<< first >>, firsts) /\ n < MaxRedraws

\* line 518: f"{random_first} {random_last}"
RandomName(first, last) == << first, Space, last >>

\* A generator as constructed, or one whose caches already hold names of earlier calls
\* (names other than those of this model).
WarmCaches ==
    { << 0, 0 >>, << CacheHighWater - 1, CacheHighWater - 1 >>,
      << CacheHighWater, CacheHighWater - 1 >>, << CacheHighWater, CacheHighWater >> }

NameInit ==
    /\ \E w \in WarmCaches :
          /\ name_cache = Cache({ }, w[1])
          /\ first_name_cache = Cache({ }, w[2])
    /\ gn_pc = "idle" /\ gn_calls = 0 /\ gn_base_persona = << >>
    /\ restated_persona = Plain(<< >>)
    /\ retry_count = 0 /\ name_posts = 0 /\ name_sent = << >> /\ name_hits = TRUE
    /\ name_lines = NoLines
    /\ random_first = "" /\ random_last = "" /\ attempts = 0
    /\ gn_result = NoRecord /\ returned = << >> /\ downsized = FALSE
    /\ json_obj = TemplateDocument /\ validation = NotRun /\ edits = 0
    /\ UxIdle /\ RestateIdle /\ ExtractIdle /\ AppIdle /\ RaceIdle

\* generate_name(base_persona) is called
CallGenerateName ==
    /\ gn_pc \in { "idle", "returned" } /\ gn_calls < MaxCalls
    /\ gn_base_persona' \in NameSeeds
    /\ gn_calls' = gn_calls + 1
    /\ gn_pc' = "downsize"
    /\ restated_persona' = Plain(<< >>)
    /\ retry_count' = 0 /\ name_posts' = 0 /\ name_sent' = << >> /\ name_hits' = TRUE
    /\ name_lines' = NoLines
    /\ random_first' = "" /\ random_last' = "" /\ attempts' = 0
    /\ gn_result' = NoRecord
    /\ UNCHANGED << name_cache, first_name_cache, returned, downsized, vvars, uxvars,
                    rsvars, exvars, appvars, racevars >>

\* lines 291-298
Downsize ==
    /\ gn_pc = "downsize"
    /\ name_cache' \in Downsized(name_cache)
    /\ first_name_cache' \in Downsized(first_name_cache)
    /\ downsized' = (downsized \/ Size(name_cache) > CacheHighWater
                               \/ Size(first_name_cache) > CacheHighWater)
    /\ retry_count' = 0
    /\ gn_pc' = "restate"
    /\ UNCHANGED << gn_calls, gn_base_persona, restated_persona, name_posts, name_sent, name_lines, name_hits,
                    random_first, random_last, attempts, gn_result, returned, vvars,
                    uxvars, rsvars, exvars, appvars, racevars >>

\* line 301
Restate ==
    /\ gn_pc = "restate"
    /\ restated_persona' \in RestateResults[gn_base_persona]
    /\ gn_pc' = "loop"
    /\ UNCHANGED << name_cache, first_name_cache, gn_calls, gn_base_persona, retry_count,
                    name_posts, name_sent, name_lines, name_hits, random_first, random_last, attempts, gn_result,
                    returned, downsized, vvars, uxvars, rsvars, exvars, appvars, racevars >>

\* Variant: the loop bound is off by one.
NameInLoopOffByOne == gn_pc = "loop" /\ retry_count <= NameMaxRetries

\* line 303
NameInLoop == gn_pc = "loop" /\ retry_count < NameMaxRetries

\* lines 410-421, 455-457: the post, raise_for_status or the decoding of the body raises
NameAttemptFails ==
    /\ NameInLoop
    /\ name_posts' = name_posts + 1
    /\ name_sent' = Append(name_sent, restated_persona)
    /\ name_lines' = NoLines
    /\ retry_count' = retry_count + 1
    /\ name_hits' = FALSE
    /\ UNCHANGED << name_cache, first_name_cache, gn_pc, gn_calls, gn_base_persona,
                    restated_persona, random_first, random_last, attempts, gn_result,
                    returned, downsized, vvars, uxvars, rsvars, exvars, appvars, racevars >>

\* lines 410-454: the service answers with a text
NameAttemptContent ==
    /\ NameInLoop
    /\ name_posts' = name_posts + 1
    /\ name_sent' = Append(name_sent, restated_persona)
    /\ \E lines \in NameResponses :
          LET parsed == ParseLines(lines, << >>, << >>)
          IN  /\ name_lines' = ReadLines(lines)
              /\ IF Accepted(parsed.name, name_cache, first_name_cache)
                 THEN /\ name_cache' = Add(name_cache, parsed.name)
                      /\ first_name_cache' = Add(first_name_cache, first_name(parsed.name))
                      /\ gn_result' = NameRecord(parsed.name, parsed.title, restated_persona)
                      /\ returned' = Append(returned, Returned(parsed.name, "accepted", FALSE))
                      /\ gn_pc' = "returned"
                      /\ UNCHANGED << retry_count, name_hits >>
                 ELSE /\ retry_count' = retry_count + 1
                      /\ name_hits' = (name_hits /\ In(parsed.name, name_cache))
                      /\ UNCHANGED << name_cache, first_name_cache, gn_result, returned,
                                      gn_pc >>
    /\ UNCHANGED << gn_calls, gn_base_persona, restated_persona, random_first,
                    random_last, attempts, downsized, vvars, uxvars, rsvars, exvars, appvars, racevars >>

\* lines 459-508: the loop is used up; the first draw of the fallback
FallbackDraw ==
    /\ gn_pc = "loop" /\ ~NameInLoop
    /\ random_first' \in first_names
    /\ random_last' \in last_names
    /\ attempts' = 0
    /\ gn_pc' = "redraw"
    /\ UNCHANGED << name_cache, first_name_cache, gn_calls, gn_base_persona,
                    restated_persona, retry_count, name_posts, name_sent, name_lines, name_hits, gn_result,
                    returned, downsized, vvars, uxvars, rsvars, exvars, appvars, racevars >>

\* lines 509-511
FallbackRedraw ==
    /\ gn_pc = "redraw" /\ KeepsDrawing(random_first, first_name_cache, attempts)
    /\ random_first' \in first_names
    /\ attempts' = attempts + 1
    /\ UNCHANGED << name_cache, first_name_cache, gn_pc, gn_calls, gn_base_persona,
                    restated_persona, retry_count, name_posts, name_sent, name_lines, name_hits, random_last,
                    gn_result, returned, downsized, vvars, uxvars, rsvars, exvars, appvars, racevars >>

\* lines 515-541
FallbackReturn ==
    /\ gn_pc = "redraw" /\ ~KeepsDrawing(random_first, first_name_cache, attempts)
    /\ name_cache' = Add(name_cache, RandomName(random_first, random_last))
    /\ first_name_cache' = Add(first_name_cache, << random_first >>)
    /\ gn_result' = NameRecord(RandomName(random_first, random_last),
                               FallbackTitle(gn_base_persona), restated_persona)
    /\ returned' = Append(returned,
                     Returned(RandomName(random_first, random_last), "fallback",
                              In(<< random_first >>, first_name_cache)))
    /\ gn_pc' = "returned"
    /\ UNCHANGED << gn_calls, gn_base_persona, restated_persona, retry_count, name_posts, name_sent,
                    name_lines,
                    name_hits, random_first, random_last, attempts, downsized, vvars,
                    uxvars, rsvars, exvars, appvars, racevars >>

NameNext ==
    \/ CallGenerateName \/ Downsize \/ Restate
    \/ NameAttemptFails \/ NameAttemptContent
    \/ FallbackDraw \/ FallbackRedraw \/ FallbackReturn

NameSpec == NameInit /\ [][NameNext]_vars

\* a call that can take a step does take it
NameFairSpec == NameSpec /\ WF_vars(NameNext)

----------------------------------------------------------------------------
(* Properties of _restate_persona and generate_name *)

\* the synthesized sentence of line 610 for the seed
IsFallbackOf(sentence, seed) ==
    /\ sentence.age \in AgeMin..AgeMax
    /\ sentence.role \in roles
    /\ sentence.words = << "of", "a" >> \o strip_dots(lower(seed))

\* C18: _restate_persona never raises and always returns a sentence (the service's
\* text, the synthesized fallback or the seed), whatever each attempt meets (a person
\* sentence, a business-like sentence, a client error), after at most 3 client calls.
C18_RestateAlwaysReturns ==
    /\ [] ( /\ rs_pc \in { "loop", "returned" }
            /\ Len(rs_sent) <= RestateMaxRetries
            /\ Len(rs_sent) = Len(rs_outcomes)
            /\ rs_pc = "returned" =>
                  /\ Len(rs_sent) >= 1
                  /\ \/ rs_result \in { Plain(strip(c)) : c \in RestateContents }
                     \/ rs_result = Plain(rs_seed)
                     \/ IsFallbackOf(rs_result, rs_seed) )
    /\ <> (rs_pc = "returned")

C18_Witness ==
    /\ rs_pc = "returned"
    /\ rs_outcomes = << "business", "error", "error" >>
    /\ rs_result = Plain(rs_seed)

\* C19: when all 3 attempts return a sentence flagged as describing a business and the
\* seed contains a business keyword, the result is the synthesized fallback sentence
\* (an age in 35..55, a fixed role noun, the lower-cased seed), not the service's
\* business-describing sentence.
C19_AllBusinessGivesFallback ==
    ( /\ rs_pc = "returned"
      /\ rs_outcomes = << "business", "business", "business" >>
      /\ has_business_term(rs_seed) )
    => /\ IsFallbackOf(rs_result, rs_seed)
       /\ ~is_about_business(rs_result.words)

\* the latest returned record, as remembered
LastReturned == returned[Len(returned)]

\* C13 (as stated): while no cache was downsized, no two records returned by
\* generate_name on one generator share a full name, fallback records included.
C13_NoTwoRecordsShareName ==
    ~downsized =>
        \A i, j \in DOMAIN returned : i < j => returned[i].name # returned[j].name

\* C13 (amended): while no cache was downsized, a returned record repeats the full name
\* of an earlier record only if it came from the fallback and its first name was still
\* cached when the redraw loop gave up; every accepted name, and every fallback name
\* whose first name was not cached, differs from all names returned before.
C13_OnlyFallbackWithCachedFirstNameRepeats ==
    ~downsized =>
        \A i, j \in DOMAIN returned :
            (i < j /\ returned[i].name = returned[j].name)
            => returned[j].path = "fallback" /\ returned[j].first_was_cached

C13_Witness ==
    /\ ~downsized /\ Len(returned) = 2
    /\ returned[1].path = "fallback"
    /\ returned[2].path = "fallback" /\ ~returned[2].first_was_cached
    /\ returned[1].name # returned[2].name

\* all 5 attempts of the call met a name that was in the full-name cache, and the
\* call has returned
ReturnedAfterFiveCachedNames ==
    gn_pc = "returned" /\ retry_count = NameMaxRetries /\ name_hits

\* C14 (as stated): when each of the 5 attempts meets a cached full name, the fallback
\* record's first name was not in the first-name cache before the fallback inserted it,
\* unless every first name of the fallback list is cached.
C14_FallbackFirstNameNewUnlessListExhausted ==
    ReturnedAfterFiveCachedNames =>
        /\ LastReturned.path = "fallback"
        /\ \/ ~LastReturned.first_was_cached
           \/ \A f \in first_names : In(<< f >>, first_name_cache)

\* C14 (amended): when each of the 5 attempts meets a cached full name, generate_name
\* returns the synthesized record '<first> <last>' drawn from the fallback lists, and
\* its first name was not in the first-name cache before the insertion unless the first
\* draw and each of the 10 redraws gave a cached first name.
C14_FallbackFirstNameNewUnlessRedrawsUsedUp ==
    ReturnedAfterFiveCachedNames =>
        /\ LastReturned.path = "fallback"
        /\ name_posts = NameMaxRetries
        /\ random_first \in first_names /\ random_last \in last_names
        /\ gn_result.name = RandomName(random_first, random_last)
        /\ LastReturned.name = gn_result.name
        /\ In(gn_result.name, name_cache) /\ In(<< random_first >>, first_name_cache)
        /\ LastReturned.first_was_cached => attempts = MaxRedraws

C14_Witness ==
    /\ ReturnedAfterFiveCachedNames
    /\ ~LastReturned.first_was_cached
    /\ attempts = 3
    /\ \E f \in first_names : f # random_first /\ In(<< f >>, first_name_cache)

\* what the downsizing step may do to one cache set
DownsizedAsClaimed(before, after) ==
    IF Size(before) > CacheHighWater
    THEN /\ Size(after) = SampleSize
         /\ after.named \subseteq before.named
         /\ after.filler <= before.filler
    ELSE after = before

\* C15: the downsizing step acts on a cache set only when it holds more than 100
\* entries and then leaves exactly 50 of its entries; a set of at most 100 entries is
\* left unchanged; no set is above 100 after the step.
C15_DownsizingStep ==
    [][ gn_pc = "downsize" =>
          /\ DownsizedAsClaimed(name_cache, name_cache')
          /\ DownsizedAsClaimed(first_name_cache, first_name_cache')
          /\ Size(name_cache') <= CacheHighWater
          /\ Size(first_name_cache') <= CacheHighWater ]_vars

C15_Witness ==
    /\ gn_pc = "restate" /\ downsized
    /\ Size(name_cache) = SampleSize /\ name_cache.named # { }
    /\ Size(first_name_cache) = CacheHighWater

\* C16: generate_name never raises; every client call it makes is counted against the
\* budget of 5 unless its name is accepted, so at most 5 name requests are made; the
\* fallback is entered exactly when 5 attempts failed or were rejected, makes no client
\* call, redraws at most 10 times and returns the synthesized record.
C16_NameAttemptsAreCounted ==
    /\ gn_pc \in { "idle", "downsize", "restate", "loop", "redraw", "returned" }
    /\ retry_count <= NameMaxRetries /\ name_posts <= NameMaxRetries
    /\ attempts <= MaxRedraws
    /\ gn_pc \in { "loop", "redraw" } => name_posts = retry_count
    /\ gn_pc = "redraw" => retry_count = NameMaxRetries
    /\ gn_pc = "returned" =>
          IF LastReturned.path = "accepted"
          THEN retry_count < NameMaxRetries /\ name_posts = retry_count + 1
          ELSE /\ retry_count = NameMaxRetries /\ name_posts = NameMaxRetries
               /\ gn_result = NameRecord(RandomName(random_first, random_last),
                                         FallbackTitle(gn_base_persona), restated_persona)
    /\ Len(returned) = IF gn_pc \in { "idle", "returned" } THEN gn_calls ELSE gn_calls - 1

C16_Witness ==
    /\ gn_pc = "returned" /\ LastReturned.path = "fallback"
    /\ ~name_hits /\ name_posts = NameMaxRetries
    /\ gn_result.title = << "Educator" >>

\* the first white-space-separated token of a name (the name itself when it has none)
first_token(name) == FirstPiece(name)

\* C17: a parsed name is accepted only if the full name is not in name_cache and its
\* first token is not in first_name_cache; on acceptance both values are inserted into
\* their caches and the record is returned with no further client call.
C17_AcceptedOnlyIfNameAndFirstTokenNew ==
    [][ (gn_pc = "loop" /\ gn_pc' = "returned") =>
          /\ ~In(gn_result'.name, name_cache)
          /\ ~In(first_token(gn_result'.name), first_name_cache)
          /\ name_cache' = Add(name_cache, gn_result'.name)
          /\ first_name_cache' = Add(first_name_cache, first_token(gn_result'.name))
          /\ name_posts' = name_posts + 1 ]_vars

----------------------------------------------------------------------------
(* POST /generate (src/app.py, lines 57-65) answering from a finished call  *)
(* of generate_ux_persona.                                                  *)

\* an HTTP answer: its status, the keys of its JSON body, and the values under the
\* keys "ux_persona" and "detail" (<< >> when the key is absent)
HttpAnswer(status, keys, ux_persona, detail) ==
    [ status |-> status, keys |-> keys, ux_persona |-> ux_persona, detail |-> detail ]

\* lines 61-65: an empty result and a raised exception both end in HTTPException(500)
generate_persona ==
    IF ux_pc = "returned" /\ result # << >>
    THEN HttpAnswer(200, { "ux_persona" }, result, << >>)
    ELSE IF ux_pc = "returned"
         THEN HttpAnswer(500, { "detail" }, << >>, << "Failed to generate persona" >>)
         ELSE HttpAnswer(500, { "detail" }, << >>, << error >>)

\* the call returned a document that passed validate_json
ReturnedValid == ux_pc = "returned" /\ LastLine = LogSuccess

\* the call returned, on its last attempt, a schema-incomplete document or the raw text
ReturnedDegraded == ux_pc = "returned" /\ LastLine \in { LogInvalid, LogParseFailed }

\* C20: a caller of generate_ux_persona and of POST /generate can tell a degraded
\* result (schema-incomplete document or raw text returned when the budget is used up)
\* from a valid one: the degraded answer does not have the form of a success, that is
\* status 200 with a body holding just the key ux_persona.
C20_DegradedResultIsSignaled ==
    ReturnedDegraded =>
        ~( /\ generate_persona.status = 200
           /\ generate_persona.keys = { "ux_persona" }
           /\ generate_persona.ux_persona = result )

----------------------------------------------------------------------------
(* The extraction step of generate_ux_persona (lines 242-248) on its own:   *)
(* a text is drawn, the step is applied to it and then to its own output.   *)

\* the longest text drawn, in tokens
MaxTextLen == 5

ExtractTokens == { Fence, JsonTag, Space, Prose, "{persona}" }

ExtractTexts == UNION { [ 1..n -> ExtractTokens ] : n \in 0..MaxTextLen }

ExtractInit ==
    /\ ex_text \in ExtractTexts
    /\ ex_step = 0 /\ ex_once = << >> /\ ex_twice = << >>
    /\ json_obj = TemplateDocument /\ validation = NotRun /\ edits = 0
    /\ UxIdle /\ RestateIdle /\ NameIdle /\ AppIdle /\ RaceIdle

\* lines 242-248 applied to the text
ExtractOnce ==
    /\ ex_step = 0
    /\ ex_once' = ExtractJsonStr(ex_text)
    /\ ex_step' = 1
    /\ UNCHANGED << ex_text, ex_twice, vvars, uxvars, rsvars, gnvars, appvars, racevars >>

\* lines 242-248 applied to their own output
ExtractTwice ==
    /\ ex_step = 1
    /\ ex_twice' = ExtractJsonStr(ex_once)
    /\ ex_step' = 2
    /\ UNCHANGED << ex_text, ex_once, vvars, uxvars, rsvars, gnvars, appvars, racevars >>

ExtractNext == ExtractOnce \/ ExtractTwice

ExtractSpec == ExtractInit /\ [][ExtractNext]_vars

\* C21: the extraction step is idempotent: its output holds no fence, so applying the
\* step to its own output takes the pass-through branch and gives that output again.
C21_ExtractionIsIdempotent ==
    /\ ex_step >= 1 => ~Contains(ex_once, << Fence >>)
    /\ ex_step = 2 => ex_twice = ex_once

C21_Witness ==
    /\ ex_step = 2
    /\ Contains(ex_text, << Fence, JsonTag >>)
    /\ ex_once # ex_text /\ ex_once # << >>
    /\ ex_twice = ex_once

\* the positions in s where sep starts
Occurrences(s, sep) == { i \in 1..Len(s) : StartsWithAt(s, sep, i) }

Least(S) == CHOOSE i \in S : \A j \in S : i <= j

\* the text from position 'from' up to the next fence, or to the end when there is none
UpToNextFence(s, from) ==
    LET later == { i \in Occurrences(s, << Fence >>) : i >= from }
    IN  SubSeq(s, from, IF later = { } THEN Len(s) ELSE Least(later) - 1)

\* C22: the candidate is, with the white space around it removed, the content between
\* the first JSON-tagged fence and the next fence when the text holds a JSON-tagged
\* fence (even after an earlier generic fenced block); else the content between the
\* first and the second fence when it holds any fence; else the text unchanged.  A
\* missing closing fence lets the content run to the end of the text.
C22_ExtractionPriority ==
    ex_step >= 1 =>
        ex_once =
            IF Occurrences(ex_text, << Fence, JsonTag >>) # { }
            THEN strip(UpToNextFence(ex_text,
                                     Least(Occurrences(ex_text, << Fence, JsonTag >>)) + 2))
            ELSE IF Occurrences(ex_text, << Fence >>) # { }
                 THEN strip(UpToNextFence(ex_text,
                                          Least(Occurrences(ex_text, << Fence >>)) + 1))
                 ELSE ex_text

\* a generic fenced block comes before the JSON-tagged fence
C22_Witness ==
    /\ ex_step >= 1
    /\ ex_text = << Fence, Prose, Fence, JsonTag, "{persona}" >>
    /\ ex_once = << "{persona}" >>

----------------------------------------------------------------------------
(* The name and expansion endpoints of src/app.py (lines 97-173), answering *)
(* MaxRequests requests one after the other.                                *)

\* how many requests a behaviour sends
MaxRequests == 2

\* app.py line 17: load_personas returns the file's personas or, when there are none,
\* the hard-coded ones (persona_generator.py lines 35-60); it is never empty
PersonaLists ==
    { << "A 35-year-old marketing manager who struggles with work-life balance.",
         "A 42-year-old teacher who is hesitant about adopting new technology." >>,
      << "A retired nurse from the local persona file." >> }

\* an Optional[str] field of a request body
None == [ given |-> FALSE, text |-> "" ]
Some(text) == [ given |-> TRUE, text |-> text ]

\* a request: the endpoint, whether the X-API-Key header matches, and the body fields
Request(endpoint, key_ok, seed, restate, name, title, description) ==
    [ endpoint |-> endpoint, key_ok |-> key_ok, base_persona |-> seed,
      restate |-> restate, name |-> name, title |-> title, description |-> description ]

\* an answer: the status, and the JSON body as a function from its keys to their values
Answer(status, body) == [ status |-> status, body |-> body ]

\* raise HTTPException(status_code, detail)
HTTPException(status, detail) == [ type |-> "HTTPException", status |-> status,
                                   text |-> detail ]
\* an exception of another type with its message
OtherException(type, text) == [ type |-> type, status |-> 0, text |-> text ]

\* FastAPI's answer to an HTTPException that leaves the handler
AnswerOf(exc) == Answer(exc.status, [ k \in { "detail" } |-> << exc.text >> ])

\* str(e): for an HTTPException the status and the detail, else the message
StatusText(status) ==
    CASE status = 400 -> "400"  [] status = 403 -> "403"  [] status = 500 -> "500"
      [] status = 503 -> "503"  [] OTHER -> "?"

StrOf(exc) ==
    IF exc.type = "HTTPException"
    THEN << StatusText(exc.status), ": ", exc.text >>
    ELSE << exc.text >>

\* lines 110-112, 128-130, 153-155, 170-172: except Exception as e:
\*     raise HTTPException(status_code=500, detail=str(e))
\* HTTPException is a subclass of Exception, so the handler's own HTTPExceptions land
\* here as well.
ExceptException(exc) == Answer(500, [ k \in { "detail" } |-> StrOf(exc) ])

\* persona_generator.py line 288: def generate_name(self, base_persona)
generate_name_parameters == { "base_persona" }

\* a call of a generator method as the handler writes it
GeneratorCall(method, argument, keywords) ==
    [ method |-> method, argument |-> argument, keywords |-> keywords ]

\* Python binds the arguments before the body runs: a keyword that is no parameter
\* raises TypeError and the method is not entered
Binds(call) ==
    call.method # "generate_name" \/ call.keywords \subseteq generate_name_parameters

UnexpectedKeyword ==
    OtherException("TypeError", "generate_name() got an unexpected keyword argument")

\* what a generate_name call that is entered may return (lines 450-454, 537-541)
AppNameRecords ==
    { [ name |-> << "Sarah Reed" >>, title |-> << "Educator" >>,
        base_persona |-> << "42-year-old teacher wary of new technology" >> ] }

\* what a generate_ux_persona call may do: return a text, or raise
AppUxOutcomes ==
    { Return(<< "{\n  persona\n}" >>), Return(<< Prose >>), Return(<< >>),
      Raise(FailedToGenerate), Raise(Exhausted) }

\* lines 99-109, 117-127, 161-169: the body of the try of a name endpoint, for the
\* persona handed on and the restate flag; rec is what generate_name returns if entered
NameHandlerTry(persona, restate, rec) ==
    LET call == GeneratorCall("generate_name", persona, { "restate" })
    IN  IF ~Binds(call)
        THEN [ calls |-> << call >>, entered |-> FALSE, raised |-> TRUE,
               exc |-> UnexpectedKeyword, answer |-> Answer(0, << >>) ]
        ELSE [ calls |-> << call >>, entered |-> TRUE, raised |-> FALSE,
               exc |-> UnexpectedKeyword,
               answer |-> Answer(200, [ k \in { "name", "title", "base_persona" } |->
                                          rec[k] ]) ]

\* what a handler did: the generator calls it made and its answer
Handled(calls, answer) == [ calls |-> calls, answer |-> answer ]

\* lines 158-173: POST /generate-name
generate_name_endpoint(req, rec) ==
    IF req.base_persona = ""
    THEN Handled(<< >>, ExceptException(HTTPException(400, "Base persona is required")))
    ELSE LET try == NameHandlerTry(req.base_persona, req.restate, rec)
         IN  Handled(try.calls, IF try.raised THEN ExceptException(try.exc)
                                ELSE try.answer)

\* lines 97-112 and 114-131: GET /random-name and GET /name-with-restate
random_name_endpoint(persona, restate, rec) ==
    LET try == NameHandlerTry(persona, restate, rec)
    IN  Handled(try.calls, IF try.raised THEN ExceptException(try.exc) ELSE try.answer)

\* lines 141-146: the seed text built from the request
ExpandedBasePersona(req) ==
    << "A person named ", req.name >>
    \o (IF req.title.given /\ req.title.text # ""
        THEN << " ", " with title ", req.title.text >> ELSE << >>)
    \o (IF req.description.given /\ req.description.text # ""
        THEN << " ", " who is described as ", req.description.text >> ELSE << >>)

\* lines 133-156: POST /expand-persona
expand_persona(req, outcome) ==
    IF req.name = ""
    THEN Handled(<< >>, ExceptException(HTTPException(400, "Name is required")))
    ELSE LET call == GeneratorCall("generate_ux_persona", ExpandedBasePersona(req), { })
         IN  IF outcome.pc = "raised"
             THEN Handled(<< call >>, ExceptException(OtherException("Exception",
                                                                      outcome.error)))
             ELSE IF outcome.result = << >>
             THEN Handled(<< call >>,
                          ExceptException(HTTPException(500, "Failed to generate persona")))
             ELSE Handled(<< call >>,
                          Answer(200, [ k \in { "ux_persona" } |-> outcome.result ]))

\* lines 29-32: verify_api_key runs before the handler
Forbidden == AnswerOf(HTTPException(403, "Invalid API key"))

AppInit ==
    /\ app_personas \in PersonaLists
    /\ app_handled = 0
    /\ app_request = Request("none", FALSE, "", FALSE, "", None, None)
    /\ app_calls = << >>
    /\ app_response = Answer(0, << >>)
    /\ json_obj = TemplateDocument /\ validation = NotRun /\ edits = 0
    /\ UxIdle /\ RestateIdle /\ NameIdle /\ ExtractIdle /\ RaceIdle

\* the key is checked first: a wrong key is answered 403 and the handler does not run
CallsOf(req, handled)  == IF req.key_ok THEN handled.calls ELSE << >>
AnswerTo(req, handled) == IF req.key_ok THEN handled.answer ELSE Forbidden

BodyTexts == { "", "A 28-year-old software engineer who loves building side projects." }

PostGenerateName ==
    /\ app_handled < MaxRequests
    /\ app_handled' = app_handled + 1
    /\ \E key_ok \in BOOLEAN, base \in BodyTexts, restate \in BOOLEAN,
          rec \in AppNameRecords :
          LET req == Request("POST /generate-name", key_ok, base, restate, "", None, None)
              handled == generate_name_endpoint(req, rec)
          IN  /\ app_request' = req
              /\ app_calls' = CallsOf(req, handled)
              /\ app_response' = AnswerTo(req, handled)
    /\ UNCHANGED << app_personas, vvars, uxvars, rsvars, gnvars, exvars, racevars >>

GetRandomName ==
    /\ app_handled < MaxRequests
    /\ app_handled' = app_handled + 1
    /\ \E key_ok \in BOOLEAN, i \in DOMAIN app_personas, rec \in AppNameRecords :
          LET req == Request("GET /random-name", key_ok, "", FALSE, "", None, None)
              handled == random_name_endpoint(app_personas[i], FALSE, rec)
          IN  /\ app_request' = req
              /\ app_calls' = CallsOf(req, handled)
              /\ app_response' = AnswerTo(req, handled)
    /\ UNCHANGED << app_personas, vvars, uxvars, rsvars, gnvars, exvars, racevars >>

GetNameWithRestate ==
    /\ app_handled < MaxRequests
    /\ app_handled' = app_handled + 1
    /\ \E key_ok \in BOOLEAN, i \in DOMAIN app_personas, rec \in AppNameRecords :
          LET req == Request("GET /name-with-restate", key_ok, "", TRUE, "", None, None)
              handled == random_name_endpoint(app_personas[i], TRUE, rec)
          IN  /\ app_request' = req
              /\ app_calls' = CallsOf(req, handled)
              /\ app_response' = AnswerTo(req, handled)
    /\ UNCHANGED << app_personas, vvars, uxvars, rsvars, gnvars, exvars, racevars >>

PostExpandPersona ==
    /\ app_handled < MaxRequests
    /\ app_handled' = app_handled + 1
    /\ \E key_ok \in BOOLEAN, name \in { "", "Sarah Reed" },
          title \in { None, Some(""), Some("Educator") },
          description \in { None, Some("wary of new technology") },
          outcome \in AppUxOutcomes :
          LET req == Request("POST /expand-persona", key_ok, "", FALSE, name, title,
                             description)
              handled == expand_persona(req, outcome)
          IN  /\ app_request' = req
              /\ app_calls' = CallsOf(req, handled)
              /\ app_response' = AnswerTo(req, handled)
    /\ UNCHANGED << app_personas, vvars, uxvars, rsvars, gnvars, exvars, racevars >>

AppNext == PostGenerateName \/ GetRandomName \/ GetNameWithRestate \/ PostExpandPersona

AppSpec == AppInit /\ [][AppNext]_vars

NameEndpoints == { "POST /generate-name", "GET /random-name", "GET /name-with-restate" }

\* C23: a name endpoint (POST /generate-name with a non-empty base_persona,
\* GET /random-name, GET /name-with-restate), called with the right key, obtains a
\* record from generate_name and returns its name, title and base_persona.
C23_NameEndpointsReturnTheRecord ==
    ( /\ app_request.endpoint \in NameEndpoints /\ app_request.key_ok
      /\ app_request.endpoint = "POST /generate-name" => app_request.base_persona # "" )
    => /\ app_response.status = 200
       /\ DOMAIN app_response.body = { "name", "title", "base_persona" }
       /\ \E rec \in AppNameRecords :
             \A k \in { "name", "title", "base_persona" } : app_response.body[k] = rec[k]

\* a request whose required string is empty
EmptyRequiredString ==
    \/ app_request.endpoint = "POST /generate-name" /\ app_request.base_persona = ""
    \/ app_request.endpoint = "POST /expand-persona" /\ app_request.name = ""

\* C24: a request with an empty required string (base_persona of POST /generate-name,
\* name of POST /expand-persona) is answered with status 400 and the generator is not
\* called.
C24_EmptyRequiredStringIs400 ==
    (EmptyRequiredString /\ app_request.key_ok)
    => app_response.status = 400 /\ app_calls = << >>

----------------------------------------------------------------------------
(* Further properties of generate_name and _restate_persona *)

\* C25: in every state reached by generate_name calls made one after the other on one
\* generator, name_cache and first_name_cache each hold at most 101 entries: a set found
\* above 100 at the start of a call is cut to 50 before anything is added, and a call
\* adds at most one entry to each set.
C25_CachesHoldAtMost101 ==
    /\ [] ( /\ Size(name_cache) <= CacheHighWater + 1
            /\ Size(first_name_cache) <= CacheHighWater + 1
            /\ gn_pc \in { "restate", "loop", "redraw" } =>
                  /\ Size(name_cache) <= CacheHighWater
                  /\ Size(first_name_cache) <= CacheHighWater )
    /\ [][ /\ Size(name_cache') <= Size(name_cache) + 1
           /\ Size(first_name_cache') <= Size(first_name_cache) + 1
           /\ (Size(name_cache') > Size(name_cache)
               \/ Size(first_name_cache') > Size(first_name_cache))
              => gn_pc \in { "loop", "redraw" } /\ gn_pc' = "returned" ]_vars

C25_Witness ==
    /\ gn_pc = "returned" /\ Len(returned) = 2 /\ downsized
    /\ Size(name_cache) = SampleSize + 1
    /\ Size(first_name_cache) = CacheHighWater + 1

\* how many of the first n attempts met a business-flagged response
RECURSIVE BusinessBefore(_, _)
BusinessBefore(outcomes, n) ==
    IF n = 0 THEN 0
    ELSE BusinessBefore(outcomes, n - 1) + (IF outcomes[n] = "business" THEN 1 ELSE 0)

\* C27: a business-flagged response on a non-final attempt appends one corrective
\* message to the shared list and retries, so the request of attempt k carries the two
\* base messages and one corrective message per earlier business-flagged attempt
\* (attempts ended by a client error add none); a response that is not flagged is
\* returned at once, on whatever attempt.
C27_CorrectiveMessagesAccumulate ==
    /\ Len(rs_sent) = Len(rs_outcomes)
    /\ \A k \in DOMAIN rs_sent :
          /\ Len(rs_sent[k]) = 2 + BusinessBefore(rs_outcomes, k - 1)
          /\ SubSeq(rs_sent[k], 1, 2) = RestateMessages(rs_seed)
          /\ \A i \in 3..Len(rs_sent[k]) : rs_sent[k][i] = CorrectiveMessage
          /\ rs_outcomes[k] = "person" =>
                /\ k = Len(rs_outcomes) /\ rs_pc = "returned" /\ rs_line = 601
                /\ rs_result \in { Plain(strip(c)) : c \in RestateContents }
                /\ ~is_about_business(rs_result.words)
          /\ (rs_outcomes[k] = "business" /\ k < RestateMaxRetries) =>
                (rs_pc = "loop" \/ Len(rs_outcomes) > k)

C27_Witness ==
    /\ rs_pc = "returned"
    /\ rs_outcomes = << "business", "error", "business" >>
    /\ Len(rs_sent[2]) = 3 /\ Len(rs_sent[3]) = 3

\* C28: a client error on a non-final attempt is retried; a client error on the third
\* attempt returns the seed unchanged when the seed holds no business keyword and the
\* synthesized sentence when it does; the return after the loop (line 615) is never
\* reached.
C28_ClientErrorHandling ==
    /\ rs_line # 615
    /\ \A k \in DOMAIN rs_outcomes :
          rs_outcomes[k] = "error" =>
             IF k < RestateMaxRetries
             THEN rs_pc = "loop" \/ Len(rs_outcomes) > k
             ELSE /\ rs_pc = "returned"
                  /\ IF has_business_term(rs_seed)
                     THEN rs_line = 610 /\ IsFallbackOf(rs_result, rs_seed)
                     ELSE rs_line = 612 /\ rs_result = Plain(rs_seed)

C28_Witness ==
    /\ rs_pc = "returned"
    /\ rs_outcomes = << "error", "business", "error" >>
    /\ has_business_term(rs_seed)
    /\ rs_result.age = AgeMin /\ rs_result.role = "founder"

\* C29: a generate_name call first downsizes the caches, then restates the seed exactly
\* once, then makes its name attempts; every name request of the call carries that one
\* restated text, and the returned record's base_persona is that text on the
\* accepted-name path and on the fallback path alike.
C29_DownsizeRestateAttempt ==
    [][ /\ gn_pc \in { "idle", "returned" } => gn_pc' = "downsize"
        /\ gn_pc = "downsize" =>
              gn_pc' = "restate" /\ name_sent' = << >> /\ UNCHANGED restated_persona
        /\ gn_pc = "restate" =>
              /\ gn_pc' = "loop" /\ name_sent' = << >>
              /\ restated_persona' \in RestateResults[gn_base_persona]
              /\ UNCHANGED << name_cache, first_name_cache >>
        /\ gn_pc \in { "loop", "redraw" } =>
              /\ gn_pc' \in { "loop", "redraw", "returned" }
              /\ UNCHANGED restated_persona
              /\ name_sent' \in { name_sent, Append(name_sent, restated_persona) }
        /\ (gn_pc # "returned" /\ gn_pc' = "returned") =>
              /\ gn_result'.base_persona = restated_persona
              /\ \A k \in DOMAIN name_sent' : name_sent'[k] = restated_persona ]_vars

C29_Witness ==
    /\ gn_pc = "returned" /\ LastReturned.path = "fallback"
    /\ Len(name_sent) = NameMaxRetries
    /\ gn_result.base_persona = Plain(strip(BusinessNote))
    /\ gn_result.base_persona # Plain(gn_base_persona)

\* C30: an attempt that is rejected as a duplicate or ends in an error leaves both
\* caches unchanged; after the downsizing step the caches change only on the step that
\* returns, by the insertion of the returned name and of its first name; the
\* restatement changes neither.
C30_CachesChangeOnlyByTheInsertion ==
    [][ /\ (gn_pc = "loop" /\ gn_pc' = "loop") =>
              /\ UNCHANGED << name_cache, first_name_cache >>
              /\ retry_count' = retry_count + 1
        /\ (gn_pc # "downsize" /\ gn_pc' # "returned") =>
              UNCHANGED << name_cache, first_name_cache >>
        /\ (gn_pc # "downsize" /\ gn_pc' = "returned") =>
              /\ name_cache'.named = name_cache.named \cup { gn_result'.name }
              /\ name_cache'.filler = name_cache.filler
              /\ first_name_cache'.named =
                    first_name_cache.named \cup { first_name(gn_result'.name) }
              /\ first_name_cache'.filler = first_name_cache.filler ]_vars

C30_Witness ==
    /\ gn_pc = "returned" /\ Len(returned) = 2 /\ LastReturned.path = "accepted"
    /\ retry_count = 2 /\ name_hits
    /\ Size(name_cache) = 2 /\ Size(first_name_cache) = 2

----------------------------------------------------------------------------
(* Two invocations of generate_name on the one PersonaGenerator of app.py    *)
(* line 14, interleaved statement by statement: the membership tests of      *)
(* lines 434 and 441 and the insertions of lines 447-448 are separate        *)
(* statements on the shared sets, and nothing in the class holds a lock.     *)

\* the variables of generate_name that are local to one invocation of NameSpec
gnlocals == << gn_pc, gn_calls, gn_base_persona, restated_persona, retry_count,
               name_posts, name_sent, name_lines, name_hits, random_first, random_last, attempts,
               gn_result, returned, downsized >>

\* lines 424-431 applied to every response: the names an attempt can parse
ParsedNames == { ParseLines(lines, << >>, << >>).name : lines \in NameResponses }

\* lines 450-454 and 537-541, kept to the name and the path
RaceResult(name, path) == [ name |-> name, path |-> path ]

RaceInit ==
    /\ json_obj = TemplateDocument /\ validation = NotRun /\ edits = 0
    /\ UxIdle /\ RestateIdle /\ NameIdle /\ ExtractIdle /\ AppIdle
    /\ RaceIdle

RaceFrame == UNCHANGED << gnlocals, vvars, uxvars, rsvars, exvars, appvars >>

\* lines 290-301: with fewer than 101 cached names the downsizing does nothing, and
\* the restatement reads and writes no cache; retry_count starts at 0 (line 296)
RaceCall(t) ==
    /\ rc_pc[t] = "idle"
    /\ rc_pc' = [ rc_pc EXCEPT ![t] = "attempt" ]
    /\ rc_retry' = [ rc_retry EXCEPT ![t] = 0 ]
    /\ UNCHANGED << rc_name, rc_result, name_cache, first_name_cache >>
    /\ RaceFrame

\* lines 303, 410-420 and 455-457: the request raises
RaceAttemptFails(t) ==
    /\ rc_pc[t] = "attempt" /\ rc_retry[t] < NameMaxRetries
    /\ rc_retry' = [ rc_retry EXCEPT ![t] = @ + 1 ]
    /\ UNCHANGED << rc_pc, rc_name, rc_result, name_cache, first_name_cache >>
    /\ RaceFrame

\* lines 303 and 410-431: the request is answered and the name is parsed
RaceAttemptContent(t) ==
    /\ rc_pc[t] = "attempt" /\ rc_retry[t] < NameMaxRetries
    /\ \E name \in ParsedNames : rc_name' = [ rc_name EXCEPT ![t] = name ]
    /\ rc_pc' = [ rc_pc EXCEPT ![t] = "check_name" ]
    /\ UNCHANGED << rc_retry, rc_result, name_cache, first_name_cache >>
    /\ RaceFrame

\* lines 434-437: if name in self.name_cache: retry_count += 1; continue
RaceCheckName(t) ==
    /\ rc_pc[t] = "check_name"
    /\ IF In(rc_name[t], name_cache)
       THEN /\ rc_retry' = [ rc_retry EXCEPT ![t] = @ + 1 ]
            /\ rc_pc' = [ rc_pc EXCEPT ![t] = "attempt" ]
       ELSE /\ rc_pc' = [ rc_pc EXCEPT ![t] = "check_first_name" ]
            /\ UNCHANGED rc_retry
    /\ UNCHANGED << rc_name, rc_result, name_cache, first_name_cache >>
    /\ RaceFrame

\* lines 440-444: if first_name in self.first_name_cache: retry_count += 1; continue
RaceCheckFirstName(t) ==
    /\ rc_pc[t] = "check_first_name"
    /\ IF In(first_name(rc_name[t]), first_name_cache)
       THEN /\ rc_retry' = [ rc_retry EXCEPT ![t] = @ + 1 ]
            /\ rc_pc' = [ rc_pc EXCEPT ![t] = "attempt" ]
       ELSE /\ rc_pc' = [ rc_pc EXCEPT ![t] = "add_name" ]
            /\ UNCHANGED rc_retry
    /\ UNCHANGED << rc_name, rc_result, name_cache, first_name_cache >>
    /\ RaceFrame

\* Variant: the insertion tests the set again and sends the invocation back to a new
\* attempt when the name has arrived meanwhile.
AddNameIfStillNew(name, names) ==
    IF In(name, names) THEN [ pc |-> "attempt", names |-> names ]
    ELSE [ pc |-> "add_first_name", names |-> Add(names, name) ]

\* line 447: self.name_cache.add(name), whatever the set holds by now
AddName(name, names) == [ pc |-> "add_first_name", names |-> Add(names, name) ]

RaceAddName(t) ==
    /\ rc_pc[t] = "add_name"
    /\ name_cache' = AddName(rc_name[t], name_cache).names
    /\ rc_pc' = [ rc_pc EXCEPT ![t] = AddName(rc_name[t], name_cache).pc ]
    /\ UNCHANGED << rc_name, rc_retry, rc_result, first_name_cache >>
    /\ RaceFrame

\* lines 448-454: self.first_name_cache.add(first_name); return the record
RaceAddFirstName(t) ==
    /\ rc_pc[t] = "add_first_name"
    /\ first_name_cache' = Add(first_name_cache, first_name(rc_name[t]))
    /\ rc_result' = [ rc_result EXCEPT ![t] = RaceResult(rc_name[t], "accepted") ]
    /\ rc_pc' = [ rc_pc EXCEPT ![t] = "returned" ]
    /\ UNCHANGED << rc_name, rc_retry, name_cache >>
    /\ RaceFrame

\* lines 303 and 459-541: the retries are used up; the drawn first name is one the
\* redraw loop of lines 509-511 can end with, which is any name of the list
RaceFallback(t) ==
    /\ rc_pc[t] = "attempt" /\ ~(rc_retry[t] < NameMaxRetries)
    /\ \E first \in first_names, last \in last_names :
          /\ name_cache' = Add(name_cache, RandomName(first, last))
          /\ first_name_cache' = Add(first_name_cache, << first >>)
          /\ rc_result' = [ rc_result EXCEPT
                              ![t] = RaceResult(RandomName(first, last), "fallback") ]
    /\ rc_pc' = [ rc_pc EXCEPT ![t] = "returned" ]
    /\ UNCHANGED << rc_name, rc_retry >>
    /\ RaceFrame

RaceNext ==
    \E t \in Invocations :
        \/ RaceCall(t)
        \/ RaceAttemptFails(t)
        \/ RaceAttemptContent(t)
        \/ RaceCheckName(t)
        \/ RaceCheckFirstName(t)
        \/ RaceAddName(t)
        \/ RaceAddFirstName(t)
        \/ RaceFallback(t)

RaceSpec == RaceInit /\ [][RaceNext]_vars

\* the invocation has passed both membership tests for its parsed name and has not
\* returned yet
PassedBothChecks(t) == rc_pc[t] \in { "add_name", "add_first_name" }

\* C26: when two generate_name invocations on one generator interleave, the membership
\* tests and the insertions are not atomic: an invocation that has passed both tests
\* inserts its name and returns it on the accepted path whatever the other invocation
\* has inserted meanwhile, so both can pass the tests for one name before either
\* inserts it and both then return that same full name.
C26_CheckAndInsertionAreNotAtomic ==
    [][ \A t \in Invocations :
          /\ (rc_pc[t] = "add_name" /\ rc_pc'[t] # "add_name") =>
                /\ rc_pc'[t] = "add_first_name"
                /\ In(rc_name[t], name_cache')
          /\ (PassedBothChecks(t) /\ ~PassedBothChecks(t)') =>
                /\ rc_pc'[t] = "returned"
                /\ rc_result'[t] = RaceResult(rc_name[t], "accepted")
          /\ PassedBothChecks(t) => rc_name'[t] = rc_name[t] ]_vars

\* Both invocations returned the same full name on the accepted path without a single
\* rejected attempt: each passed its tests before the other inserted.
C26_Witness ==
    /\ \A t \in Invocations :
          rc_pc[t] = "returned" /\ rc_result[t].path = "accepted" /\ rc_retry[t] = 0
    /\ rc_result[1].name = rc_result[2].name
    /\ rc_result[1].name = << "Sarah", Space, "Reed" >>
    /\ Size(name_cache) = 1

----------------------------------------------------------------------------
(* A response without a "Name:" line *)

\* the response read holds no line starting with "Name:"
NoNameLine(read) ==
    read.read /\ \A i \in DOMAIN read.lines : read.lines[i].tag # "Name:"

\* the empty string, as a parsed name
EmptyName == << >>

\* an earlier call of this generator returned a record with the empty name
EmptyNameReturnedBefore ==
    gn_pc = "loop" /\ \E k \in DOMAIN returned : returned[k].name = EmptyName

\* C31 as stated: a response without a "Name:" line gives the empty string as the parsed
\* name; when the empty string is in neither cache it is inserted into both and a record
\* with the empty name is returned as a success; on every later call the empty string
\* counts as a duplicate and the attempt is retried.
C31_EmptyNameIsDuplicateOnLaterCalls ==
    [][ (gn_pc = "loop" /\ name_posts' = name_posts + 1 /\ NoNameLine(name_lines')) =>
          /\ IF ~In(EmptyName, name_cache) /\ ~In(EmptyName, first_name_cache)
             THEN /\ gn_pc' = "returned" /\ gn_result'.name = EmptyName
                  /\ In(EmptyName, name_cache') /\ In(EmptyName, first_name_cache')
             ELSE /\ gn_pc' = "loop" /\ retry_count' = retry_count + 1
          /\ EmptyNameReturnedBefore =>
                gn_pc' = "loop" /\ retry_count' = retry_count + 1 ]_vars

\* C31, amended: a response without a "Name:" line gives the empty string as the parsed
\* name; when the empty string is in neither cache it is inserted into both and a record
\* with the empty name is returned as a success on the accepted path; when it is in
\* either cache the attempt is rejected and retried; the empty string, once inserted,
\* stays in a cache until a downsizing step, which may drop it.
C31_EmptyNameIsDuplicateWhileCached ==
    [][ /\ (gn_pc = "loop" /\ name_posts' = name_posts + 1 /\ NoNameLine(name_lines')) =>
              IF ~In(EmptyName, name_cache) /\ ~In(EmptyName, first_name_cache)
              THEN /\ gn_pc' = "returned" /\ gn_result'.name = EmptyName
                   /\ returned' = Append(returned, Returned(EmptyName, "accepted", FALSE))
                   /\ name_cache' = [ name_cache EXCEPT !.named = @ \cup { EmptyName } ]
                   /\ first_name_cache' =
                         [ first_name_cache EXCEPT !.named = @ \cup { EmptyName } ]
                   /\ retry_count' = retry_count
              ELSE /\ gn_pc' = "loop" /\ retry_count' = retry_count + 1
                   /\ UNCHANGED << name_cache, first_name_cache, returned >>
        /\ gn_pc # "downsize" =>
              /\ In(EmptyName, name_cache) => In(EmptyName, name_cache')
              /\ In(EmptyName, first_name_cache) => In(EmptyName, first_name_cache') ]_vars

\* the second call reads a response without a "Name:" line after the first call
\* returned the empty name, and is sent back to a new attempt
C31_Witness ==
    /\ gn_calls = 2 /\ gn_pc = "loop" /\ retry_count = 1 /\ name_hits
    /\ NoNameLine(name_lines)
    /\ Len(returned) = 1 /\ returned[1] = Returned(EmptyName, "accepted", FALSE)
    /\ In(EmptyName, name_cache) /\ In(EmptyName, first_name_cache)

====
